---- MODULE Spec2Model ----
(***************************************************************************)
(* Model of EmailValidator (src/emailValidator.js): the validation         *)
(* pipeline validateEmail, the race helper withTimeout, the resolvers, the *)
(* SMTP orchestrator validateSMTP and the probe session performSMTPCheck.  *)
(*                                                                         *)
(* A JavaScript string is modelled as a sequence of one-character strings, *)
(* so that trim, split, match and toLowerCase are computed, not assumed.   *)
(* A message built from a template (`Connection rejected: ${message}`) is  *)
(* the sequence of its fixed part followed by the interpolated lines.      *)
(* One action of the model is one macrotask of the Node.js event loop (an  *)
(* I/O callback or a timer callback) together with all the promise         *)
(* continuations it triggers, which run to completion before the next      *)
(* macrotask.                                                              *)
(***************************************************************************)
EXTENDS Integers, Sequences, FiniteSets, TLC

VARIABLES
    config,   \* the validator's options, set by the constructor
    calls,    \* one record per validateEmail call that has been made
    batch     \* the validateBatch call, if one has been made

vars == <<config, calls, batch>>

----------------------------------------------------------------------------
(* Characters and string helpers                                           *)

LowerLetters == <<"a","b","c","d","e","f","g","h","i","j","k","l","m","n","o","p","q","r","s","t","u","v","w","x","y","z">>
UpperLetters == <<"A","B","C","D","E","F","G","H","I","J","K","L","M","N","O","P","Q","R","S","T","U","V","W","X","Y","Z">>
Digits == {"0","1","2","3","4","5","6","7","8","9"}
Letters == {LowerLetters[i] : i \in 1..26} \cup {UpperLetters[i] : i \in 1..26}
AlphaNum == Letters \cup Digits
\* [a-zA-Z0-9.!#$%&'*+/=?^_.{|}~-] with the grave accent, written "grave" here
\* (the one character a string of this language cannot hold)
LocalChars == AlphaNum \cup {".", "!", "#", "$", "%", "&", "'", "*", "+", "/", "=", "?",
                            "^", "_", "grave", "{", "|", "}", "~", "-"}
\* [a-zA-Z0-9-]
LabelChars == AlphaNum \cup {"-"}
WhiteSpace == {" ", "\t", "\n", "\r"}

\* the list the constructor puts in this.disposableDomains
disposableDomains ==
    { <<"1","0","m","i","n","u","t","e","m","a","i","l",".","c","o","m">>,
      <<"2","0","m","i","n","u","t","e","m","a","i","l",".","c","o","m">>,
      <<"g","u","e","r","r","i","l","l","a","m","a","i","l",".","c","o","m">>,
      <<"m","a","i","l","i","n","a","t","o","r",".","c","o","m">>,
      <<"t","e","m","p","m","a","i","l",".","o","r","g">>,
      <<"t","e","m","p","-","m","a","i","l",".","o","r","g">>,
      <<"y","o","p","m","a","i","l",".","c","o","m">>,
      <<"t","h","r","o","w","a","w","a","y",".","e","m","a","i","l">>,
      <<"m","a","i","l","d","r","o","p",".","c","c">>,
      <<"t","r","a","s","h","m","a","i","l",".","c","o","m">>,
      <<"d","i","s","p","o","s","t","a","b","l","e",".","c","o","m">>,
      <<"m","a","i","l","n","e","s","i","a",".","c","o","m">>,
      <<"s","p","a","m","g","o","u","r","m","e","t",".","c","o","m">>,
      <<"m","o","h","m","a","l",".","c","o","m">>,
      <<"s","h","a","r","k","l","a","s","e","r","s",".","c","o","m">>,
      <<"g","r","r",".","l","a">>,
      <<"g","u","e","r","r","i","l","l","a","m","a","i","l","b","l","o","c","k",".","c","o","m">>,
      <<"p","o","k","e","m","a","i","l",".","n","e","t">>,
      <<"s","p","a","m","4",".","m","e">>,
      <<"t","e","m","p","a","i","l",".","c","o","m">>,
      <<"t","e","m","p","e","m","a","i","l",".","c","o","m">>,
      <<"t","e","m","p","i","n","b","o","x",".","c","o","m">>,
      <<"e","m","a","i","l","o","n","d","e","c","k",".","c","o","m">>,
      <<"g","e","t","n","a","d","a",".","c","o","m">>,
      <<"h","a","r","a","k","i","r","i","m","a","i","l",".","c","o","m">>,
      <<"m","y","t","r","a","s","h","m","a","i","l",".","c","o","m">>,
      <<"m","a","i","l","c","a","t","c","h",".","c","o","m">> }

\* the list the constructor puts in this.roleBasedPrefixes
roleBasedPrefixes ==
    { <<"a","d","m","i","n">>,
      <<"a","d","m","i","n","i","s","t","r","a","t","o","r">>,
      <<"s","u","p","p","o","r","t">>,
      <<"h","e","l","p">>,
      <<"i","n","f","o">>,
      <<"c","o","n","t","a","c","t">>,
      <<"s","a","l","e","s">>,
      <<"m","a","r","k","e","t","i","n","g">>,
      <<"b","i","l","l","i","n","g">>,
      <<"a","c","c","o","u","n","t","s">>,
      <<"n","o","-","r","e","p","l","y">>,
      <<"n","o","r","e","p","l","y">>,
      <<"w","e","b","m","a","s","t","e","r">>,
      <<"p","o","s","t","m","a","s","t","e","r">>,
      <<"h","o","s","t","m","a","s","t","e","r">>,
      <<"a","b","u","s","e">>,
      <<"s","e","c","u","r","i","t","y">>,
      <<"p","r","i","v","a","c","y">>,
      <<"l","e","g","a","l">>,
      <<"c","o","m","p","l","i","a","n","c","e">>,
      <<"h","r">>,
      <<"r","e","c","r","u","i","t","i","n","g">>,
      <<"c","a","r","e","e","r","s">> }

\* String.prototype.toLowerCase, one character
LowerChar(ch) ==
    IF \E i \in 1..26 : UpperLetters[i] = ch
    THEN LowerLetters[CHOOSE i \in 1..26 : UpperLetters[i] = ch]
    ELSE ch

\* String.prototype.toLowerCase
toLowerCase(s) == [i \in 1..Len(s) |-> LowerChar(s[i])]

\* String.prototype.trim
trim(s) ==
    LET keep == {i \in 1..Len(s) : s[i] \notin WhiteSpace}
    IN  IF keep = {} THEN <<>>
        ELSE SubSeq(s, CHOOSE i \in keep : \A j \in keep : i <= j,
                       CHOOSE i \in keep : \A j \in keep : i >= j)

\* (s.match(/@/g) || []).length, for any character
CountChar(s, ch) == Cardinality({i \in 1..Len(s) : s[i] = ch})

\* String.prototype.split(ch): the pieces between the occurrences of ch
RECURSIVE split(_, _)
split(s, ch) ==
    LET at == {i \in 1..Len(s) : s[i] = ch}
    IN  IF at = {} THEN <<s>>
        ELSE LET k == CHOOSE i \in at : \A j \in at : i <= j
             IN  <<SubSeq(s, 1, k - 1)>> \o split(SubSeq(s, k + 1, Len(s)), ch)

startsWith(s, ch) == Len(s) >= 1 /\ s[1] = ch
endsWith(s, ch) == Len(s) >= 1 /\ s[Len(s)] = ch
\* localPart.includes('..')
includesTwice(s, ch) == \E i \in 1..(Len(s) - 1) : s[i] = ch /\ s[i + 1] = ch

\* An input of validateEmail: a string, a value that is not a string
\* (null, a number) or a value that cannot even be converted to one (a Symbol)
Str(s) == [isString |-> TRUE, printable |-> TRUE, chars |-> s]
NonString == [isString |-> FALSE, printable |-> TRUE, chars |-> <<>>]
Unprintable == [isString |-> FALSE, printable |-> FALSE, chars |-> <<>>]

----------------------------------------------------------------------------
(* Syntax validator                                                        *)

\* [a-zA-Z0-9](?:[a-zA-Z0-9-]{0,61}[a-zA-Z0-9])?
LabelMatches(l) ==
    /\ Len(l) >= 1
    /\ Len(l) <= 63
    /\ \A i \in 1..Len(l) : l[i] \in LabelChars
    /\ l[1] \in AlphaNum
    /\ l[Len(l)] \in AlphaNum

\* emailRegex.test(email), for a string with exactly one '@'
emailRegexTest(s) ==
    LET parts == split(s, "@")
        labels == split(parts[2], ".")
    IN  /\ Len(parts) = 2
        /\ Len(parts[1]) >= 1
        /\ \A i \in 1..Len(parts[1]) : parts[1][i] \in LocalChars
        /\ \A k \in 1..Len(labels) : LabelMatches(labels[k])

Failed(text) == [passed |-> FALSE, message |-> <<text>>]

\* validateSyntax asking for at least one '@'
validateSyntaxAtLeastOne(input) ==
    IF ~input.isString \/ input.chars = <<>>
    THEN Failed("Email is required and must be a string")
    ELSE
    LET email == trim(input.chars)
        atSymbols == CountChar(email, "@")
        parts == split(email, "@")
        localPart == parts[1]
        domain == parts[2]
    IN  IF atSymbols < 1
        THEN Failed("Email must contain exactly one @ symbol")
        ELSE IF Len(localPart) = 0 \/ Len(localPart) > 64
        THEN Failed("Local part must be 1-64 characters")
        ELSE IF Len(domain) = 0 \/ Len(domain) > 253
        THEN Failed("Domain part must be 1-253 characters")
        ELSE IF ~emailRegexTest(email)
        THEN Failed("Email format is invalid according to RFC 5322")
        ELSE IF startsWith(localPart, ".") \/ endsWith(localPart, ".")
        THEN Failed("Local part cannot start or end with a period")
        ELSE IF includesTwice(localPart, ".")
        THEN Failed("Local part cannot contain consecutive periods")
        ELSE IF startsWith(domain, "-") \/ endsWith(domain, "-")
        THEN Failed("Domain cannot start or end with a hyphen")
        ELSE [passed |-> TRUE, message |-> <<"Email syntax is valid">>]

\* validateSyntax: lines 142-172
validateSyntax(input) ==
    IF ~input.isString \/ input.chars = <<>>
    THEN Failed("Email is required and must be a string")
    ELSE
    LET email == trim(input.chars)
        atSymbols == CountChar(email, "@")
        parts == split(email, "@")
        localPart == parts[1]
        domain == parts[2]
    IN  IF atSymbols # 1
        THEN Failed("Email must contain exactly one @ symbol")
        ELSE IF Len(localPart) = 0 \/ Len(localPart) > 64
        THEN Failed("Local part must be 1-64 characters")
        ELSE IF Len(domain) = 0 \/ Len(domain) > 253
        THEN Failed("Domain part must be 1-253 characters")
        ELSE IF ~emailRegexTest(email)
        THEN Failed("Email format is invalid according to RFC 5322")
        ELSE IF startsWith(localPart, ".") \/ endsWith(localPart, ".")
        THEN Failed("Local part cannot start or end with a period")
        ELSE IF includesTwice(localPart, ".")
        THEN Failed("Local part cannot contain consecutive periods")
        ELSE IF startsWith(domain, "-") \/ endsWith(domain, "-")
        THEN Failed("Domain cannot start or end with a hyphen")
        ELSE [passed |-> TRUE, message |-> <<"Email syntax is valid">>]

\* parseEmail: the first two pieces of the untrimmed input
parseEmail(input) ==
    LET parts == split(input.chars, "@")
    IN  [localPart |-> parts[1], domain |-> parts[2]]

----------------------------------------------------------------------------
(* Reputation heuristics                                                   *)

\* checkDisposable comparing the domain as written
checkDisposableCaseSensitive(domain) ==
    LET isDisposable == domain \in config.disposableDomains
    IN  [passed |-> ~isDisposable,
         message |-> IF isDisposable
                     THEN <<"Domain is a known disposable email provider">>
                     ELSE <<"Domain is not a disposable email provider">>]

\* checkDisposable: lines 364-370
checkDisposable(domain) ==
    LET isDisposable == toLowerCase(domain) \in config.disposableDomains
    IN  [passed |-> ~isDisposable,
         message |-> IF isDisposable
                     THEN <<"Domain is a known disposable email provider">>
                     ELSE <<"Domain is not a disposable email provider">>]

checkRoleBased(localPart) ==
    LET isRoleBased == toLowerCase(localPart) \in config.roleBasedPrefixes
    IN  [passed |-> ~isRoleBased,
         message |-> IF isRoleBased
                     THEN <<"Email appears to be role-based (non-personal)">>
                     ELSE <<"Email appears to be personal (not role-based)">>]

----------------------------------------------------------------------------
(* Bounds of the model and the environment it is checked against           *)

\* largest retryAttempts option given to the constructor
MaxRetry == 2
\* largest number of MX records in an answer of the resolver
MaxMx == 2

\* parseInt gives NaN when the text does not start with a number
NaN == 0 - 1000

DigitSeq == <<"0","1","2","3","4","5","6","7","8","9">>
DigitVal(ch) == (CHOOSE i \in 1..10 : DigitSeq[i] = ch) - 1

\* value of the longest prefix of digits of s, NaN when it is empty
RECURSIVE DigitsPrefix(_, _, _)
DigitsPrefix(s, i, acc) ==
    IF i <= Len(s) /\ s[i] \in Digits
    THEN DigitsPrefix(s, i + 1, IF acc = NaN THEN DigitVal(s[i]) ELSE 10 * acc + DigitVal(s[i]))
    ELSE acc

\* parseInt(s): optional sign, then the longest prefix of decimal digits
parseInt(s) ==
    LET t == trim(s)
        signed == Len(t) >= 1 /\ t[1] \in {"+", "-"}
        n == DigitsPrefix(t, IF signed THEN 2 ELSE 1, NaN)
    IN  IF n = NaN THEN NaN
        ELSE IF signed /\ t[1] = "-" THEN 0 - n ELSE n

\* String.prototype.substr(0, n)
substr0(s, n) == SubSeq(s, 1, IF Len(s) < n THEN Len(s) ELSE n)

CRLF == <<"\r", "\n">>
\* os.hostname()
hostname == "localhost"

----------------------------------------------------------------------------
(* Domain and MX resolvers                                                 *)

\* validateDomain, given how dns.lookup ended ("ok" or an error code)
validateDomain(outcome) ==
    IF outcome = "ok"
    THEN [passed |-> TRUE, message |-> <<"Domain exists and is resolvable">>]
    ELSE [passed |-> FALSE, message |-> <<"Domain lookup failed: ", outcome>>]

\* Array.prototype.sort((a, b) => a.priority - b.priority): stable
RECURSIVE InsertByPriority(_, _)
InsertByPriority(sorted, r) ==
    IF sorted = <<>> THEN <<r>>
    ELSE IF sorted[Len(sorted)].priority <= r.priority THEN Append(sorted, r)
    ELSE Append(InsertByPriority(SubSeq(sorted, 1, Len(sorted) - 1), r), sorted[Len(sorted)])

RECURSIVE sortByPriority(_)
sortByPriority(recs) ==
    IF recs = <<>> THEN <<>>
    ELSE InsertByPriority(sortByPriority(SubSeq(recs, 1, Len(recs) - 1)), recs[Len(recs)])

\* validateMX keeping the order of the resolver
validateMXUnsorted(outcome) ==
    IF outcome.error # ""
    THEN [passed |-> FALSE,
          message |-> <<"MX record lookup failed: ", outcome.error>>,
          records |-> <<>>]
    ELSE IF Len(outcome.records) = 0
    THEN [passed |-> FALSE,
          message |-> <<"No MX records found for domain">>,
          records |-> <<>>]
    ELSE LET sortedRecords == outcome.records
         IN  [passed |-> TRUE,
              message |-> <<"Found ", ToString(Len(sortedRecords)), " MX record(s)">>,
              records |-> sortedRecords]

\* validateMX, given how dns.resolveMx ended: its answer, or an error code
validateMX(outcome) ==
    IF outcome.error # ""
    THEN [passed |-> FALSE,
          message |-> <<"MX record lookup failed: ", outcome.error>>,
          records |-> <<>>]
    ELSE IF Len(outcome.records) = 0
    THEN [passed |-> FALSE,
          message |-> <<"No MX records found for domain">>,
          records |-> <<>>]
    ELSE LET sortedRecords == sortByPriority(outcome.records)
         IN  [passed |-> TRUE,
              message |-> <<"Found ", ToString(Len(sortedRecords)), " MX record(s)">>,
              records |-> sortedRecords]

----------------------------------------------------------------------------
(* SMTP probe session: the closure of one performSMTPCheck call            *)

NoResult == [passed |-> FALSE, message |-> <<>>, response |-> <<>>]

\* No probe has been started
NoSession ==
    [email |-> <<>>, host |-> "", socket |-> "none", step |-> 0, response |-> <<>>,
     connected |-> FALSE,
     watchdog |-> "none", closePending |-> FALSE,
     settled |-> "pending", result |-> NoResult, error |-> <<>>,
     sent |-> <<>>, dropped |-> <<>>, received |-> <<>>]

\* performSMTPCheck up to the return of the promise: the socket is created,
\* its idle timeout and the watchdog are armed and the connection is started
NewSession(email, mxServer) ==
    [NoSession EXCEPT !.email = email, !.host = mxServer, !.socket = "connecting",
                      !.watchdog = "pending"]

\* socket.destroy(): the 'close' event follows in a later macrotask
destroy(s) ==
    IF s.socket = "destroyed" THEN s
    ELSE [s EXCEPT !.socket = "destroyed", !.closePending = TRUE]

cleanup(s) ==
    LET t == [s EXCEPT !.watchdog = IF @ = "pending" THEN "cleared" ELSE @]
    IN  IF t.socket # "destroyed" THEN destroy(t) ELSE t

\* a promise settles once: later calls of resolve and reject are ignored
resolve(s, r) ==
    IF s.settled = "pending" THEN [s EXCEPT !.settled = "resolved", !.result = r] ELSE s

reject(s, msg) ==
    IF s.settled = "pending" THEN [s EXCEPT !.settled = "rejected", !.error = msg] ELSE s

\* socket.write: bytes written to a destroyed socket never reach the server
write(s, cmd) ==
    IF s.socket = "open" THEN [s EXCEPT !.sent = Append(@, cmd)]
    ELSE [s EXCEPT !.dropped = Append(@, cmd)]

CmdHELO == <<"HELO ", hostname>> \o CRLF
CmdMAIL == <<"MAIL FROM:<", config.fromEmail, ">">> \o CRLF
CmdRCPT(email) == <<"RCPT TO:<">> \o email \o <<">">> \o CRLF
CmdQUIT == <<"QUIT">> \o CRLF

\* classifyRcpt with the accepting code mistyped
classifyRcptMistyped250(code, message, response) ==
    IF code = 251
    THEN [passed |-> TRUE,
          message |-> <<"Email address accepted by SMTP server">>,
          response |-> trim(response)]
    ELSE IF code = 550 \/ code = 551 \/ code = 553
    THEN [passed |-> FALSE,
          message |-> <<"Email address rejected: ">> \o message,
          response |-> trim(response)]
    ELSE IF code = 450 \/ code = 451 \/ code = 452
    THEN [passed |-> FALSE,
          message |-> <<"Temporary failure (possible greylisting): ">> \o message,
          response |-> trim(response)]
    ELSE [passed |-> FALSE,
          message |-> <<"Unexpected response: ">> \o message,
          response |-> trim(response)]

\* classifyRcpt with 551 left out of the rejection codes
classifyRcptNo551(code, message, response) ==
    IF code = 250
    THEN [passed |-> TRUE,
          message |-> <<"Email address accepted by SMTP server">>,
          response |-> trim(response)]
    ELSE IF code = 550 \/ code = 553
    THEN [passed |-> FALSE,
          message |-> <<"Email address rejected: ">> \o message,
          response |-> trim(response)]
    ELSE IF code = 450 \/ code = 451 \/ code = 452
    THEN [passed |-> FALSE,
          message |-> <<"Temporary failure (possible greylisting): ">> \o message,
          response |-> trim(response)]
    ELSE [passed |-> FALSE,
          message |-> <<"Unexpected response: ">> \o message,
          response |-> trim(response)]

\* the reply of step 3 (RCPT TO) decides the result
classifyRcpt(code, message, response) ==
    IF code = 250
    THEN [passed |-> TRUE,
          message |-> <<"Email address accepted by SMTP server">>,
          response |-> trim(response)]
    ELSE IF code = 550 \/ code = 551 \/ code = 553
    THEN [passed |-> FALSE,
          message |-> <<"Email address rejected: ">> \o message,
          response |-> trim(response)]
    ELSE IF code = 450 \/ code = 451 \/ code = 452
    THEN [passed |-> FALSE,
          message |-> <<"Temporary failure (possible greylisting): ">> \o message,
          response |-> trim(response)]
    ELSE [passed |-> FALSE,
          message |-> <<"Unexpected response: ">> \o message,
          response |-> trim(response)]

\* handshakeStep accepting every code of the class of the expected one
handshakeStepLax(s, code, expected, cmd, rejectText, message) ==
    IF code \div 100 = expected \div 100
    THEN [write(s, cmd) EXCEPT !.step = @ + 1]
    ELSE LET t == cleanup(s)
         IN  resolve(t, [passed |-> FALSE,
                         message |-> <<rejectText>> \o message,
                         response |-> trim(t.response)])

\* one step of the handshake: the expected code sends the next command,
\* any other code ends the session as rejected
handshakeStep(s, code, expected, cmd, rejectText, message) ==
    IF code = expected
    THEN [write(s, cmd) EXCEPT !.step = @ + 1]
    ELSE LET t == cleanup(s)
         IN  resolve(t, [passed |-> FALSE,
                         message |-> <<rejectText>> \o message,
                         response |-> trim(t.response)])

\* onData keeping only the last message in the transcript
onDataLastOnly(s0, data) ==
    LET message == trim(data)
        s == [s0 EXCEPT !.response = message \o <<"\n">>,
                         !.received = Append(@, data)]
        code == parseInt(substr0(message, 3))
    IN  CASE s.step = 0 ->
               handshakeStep(s, code, 220, CmdHELO, "Connection rejected: ", message)
          [] s.step = 1 ->
               handshakeStep(s, code, 250, CmdMAIL, "HELO rejected: ", message)
          [] s.step = 2 ->
               handshakeStep(s, code, 250, CmdRCPT(s.email), "MAIL FROM rejected: ", message)
          [] s.step = 3 ->
               LET t == write(cleanup(s), CmdQUIT)
               IN  resolve(t, classifyRcpt(code, message, t.response))
          [] OTHER -> s

\* socket.on('data'); received keeps the payloads of the data events of the
\* session, in the order of their arrival
onData(s0, data) ==
    LET message == trim(data)
        s == [s0 EXCEPT !.response = @ \o message \o <<"\n">>,
                         !.received = Append(@, data)]
        code == parseInt(substr0(message, 3))
    IN  CASE s.step = 0 ->
               handshakeStep(s, code, 220, CmdHELO, "Connection rejected: ", message)
          [] s.step = 1 ->
               handshakeStep(s, code, 250, CmdMAIL, "HELO rejected: ", message)
          [] s.step = 2 ->
               handshakeStep(s, code, 250, CmdRCPT(s.email), "MAIL FROM rejected: ", message)
          [] s.step = 3 ->
               LET t == write(cleanup(s), CmdQUIT)
               IN  resolve(t, classifyRcpt(code, message, t.response))
          [] OTHER -> s

\* onTimeout leaving the socket and the watchdog alone
onTimeoutNoCleanup(s) == reject(s, <<"SMTP socket timeout">>)

\* socket.on('timeout')
onTimeout(s) == reject(cleanup(s), <<"SMTP socket timeout">>)

\* onWatchdog without socket.destroy()
onWatchdogNoDestroy(s) ==
    reject([s EXCEPT !.watchdog = "fired"], <<"SMTP connection timeout">>)

\* the watchdog set by setTimeout(..., this.timeout)
onWatchdog(s) ==
    reject(destroy([s EXCEPT !.watchdog = "fired"]), <<"SMTP connection timeout">>)

\* onError rejecting without cleanup()
onErrorNoCleanup(s, code) == reject(destroy(s), <<code>>)

\* socket.on('error'): the runtime has destroyed the socket before the event
onError(s, code) == reject(cleanup(destroy(s)), <<code>>)

\* the callback of socket.connect
onConnect(s) == [s EXCEPT !.socket = "open", !.connected = TRUE]

\* socket.on('close')
onClose(s) == cleanup([s EXCEPT !.closePending = FALSE])

----------------------------------------------------------------------------
(* validateSMTP: the retry/fallback orchestrator                           *)

NoOrch == [pc |-> "none", attempt |-> 0, idx |-> 0, email |-> <<>>,
           records |-> <<>>, out |-> NoResult]

FailedAllServers ==
    [passed |-> FALSE,
     message |-> <<"SMTP validation failed for all MX servers after retries">>,
     response |-> <<>>]

\* withTimeout's result when its timer wins the race
TimeoutResult(timeoutMessage) ==
    [passed |-> FALSE, message |-> <<timeoutMessage>>, records |-> <<>>]

\* smtpDone with the disposable check counted in isValid
smtpDoneStrict(c, smtpResult) ==
    LET checks == [c.result.checks EXCEPT
                     !.smtp = smtpResult,
                     !.disposable = checkDisposable(c.domain),
                     !.roleBased = checkRoleBased(c.localPart)]
    IN  [c EXCEPT !.pc = "returned",
                  !.result.checks = checks,
                  !.result.isValid = checks.syntax.passed /\ checks.domain.passed
                                     /\ checks.mx.passed /\ checks.smtp.passed
                                     /\ checks.disposable.passed]

\* smtpDone running the heuristics only for a mailbox that was accepted
smtpDoneSkipHeuristics(c, smtpResult) ==
    LET checks == [c.result.checks EXCEPT
                     !.smtp = smtpResult,
                     !.disposable = IF smtpResult.passed THEN checkDisposable(c.domain) ELSE @,
                     !.roleBased = IF smtpResult.passed THEN checkRoleBased(c.localPart) ELSE @]
    IN  [c EXCEPT !.pc = "returned",
                  !.result.checks = checks,
                  !.result.isValid = checks.syntax.passed /\ checks.domain.passed
                                     /\ checks.mx.passed /\ checks.smtp.passed]

\* lines 95-112 of validateEmail: the SMTP result is recorded, the heuristics
\* run, isValid is computed and the report is returned
smtpDone(c, smtpResult) ==
    LET checks == [c.result.checks EXCEPT
                     !.smtp = smtpResult,
                     !.disposable = checkDisposable(c.domain),
                     !.roleBased = checkRoleBased(c.localPart)]
    IN  [c EXCEPT !.pc = "returned",
                  !.result.checks = checks,
                  !.result.isValid = checks.syntax.passed /\ checks.domain.passed
                                     /\ checks.mx.passed /\ checks.smtp.passed]

\* a probe session that has not settled or still holds its socket or watchdog
InFlight(s) ==
    \/ s.socket \in {"connecting", "open"}
    \/ s.watchdog = "pending"
    \/ s.host # "" /\ s.settled = "pending"

\* a probe is started for the host at position idx of round attempt; the
\* closure of the preceding probe is no longer referenced (orphans counts
\* the probes that were still in flight when that happened)
startProbe(c, attempt, idx) ==
    [c EXCEPT !.orch.pc = "probing", !.orch.attempt = attempt, !.orch.idx = idx,
              !.sess = NewSession(c.orch.email, c.orch.records[idx].exchange),
              !.log = Append(@, [host |-> c.orch.records[idx].exchange,
                                 attempt |-> attempt]),
              !.orphans = IF InFlight(c.sess) THEN @ + 1 ELSE @]

\* orchReturn writing the result of validateSMTP into the report whenever it
\* arrives, also after the race was lost
orchReturnLate(c, r) == smtpDone([c EXCEPT !.orch.pc = "done", !.orch.out = r], r)

\* validateSMTP returns: its promise wins the race of withTimeout if the
\* stage timer has not fired yet, and is ignored otherwise
orchReturn(c, r) ==
    LET d == [c EXCEPT !.orch.pc = "done", !.orch.out = r]
    IN  IF d.pc = "awaitSMTP" THEN smtpDone(d, r) ELSE d

\* orchResume returning the result of a probe that was rejected
orchResumeStopOnReject(c) ==
    LET s == c.sess
        o == c.orch
    IN  IF s.settled = "resolved"
        THEN orchReturn(c, s.result)
        ELSE IF o.idx < Len(o.records)
        THEN startProbe(c, o.attempt, o.idx + 1)
        ELSE IF o.attempt < config.retryAttempts - 1
        THEN [c EXCEPT !.orch.pc = "sleeping"]
        ELSE orchReturn(c, FailedAllServers)

\* orchResume without the try/catch around the await: a rejected probe ends
\* the search
orchResumeNoCatch(c) ==
    LET s == c.sess
        o == c.orch
    IN  IF s.settled = "resolved" /\ s.result.passed
        THEN orchReturn(c, s.result)
        ELSE IF s.settled = "rejected"
        THEN orchReturn(c, FailedAllServers)
        ELSE IF o.idx < Len(o.records)
        THEN startProbe(c, o.attempt, o.idx + 1)
        ELSE IF o.attempt < config.retryAttempts - 1
        THEN [c EXCEPT !.orch.pc = "sleeping"]
        ELSE orchReturn(c, FailedAllServers)

\* orchResume with one round too many
orchResumeExtraRound(c) ==
    LET s == c.sess
        o == c.orch
    IN  IF s.settled = "resolved" /\ s.result.passed
        THEN orchReturn(c, s.result)
        ELSE IF o.idx < Len(o.records)
        THEN startProbe(c, o.attempt, o.idx + 1)
        ELSE IF o.attempt < config.retryAttempts
        THEN [c EXCEPT !.orch.pc = "sleeping"]
        ELSE orchReturn(c, FailedAllServers)

\* orchResume returning the result of the last host when every host failed
orchResumeLastResult(c) ==
    LET s == c.sess
        o == c.orch
    IN  IF s.settled = "resolved" /\ s.result.passed
        THEN orchReturn(c, s.result)
        ELSE IF o.idx < Len(o.records)
        THEN startProbe(c, o.attempt, o.idx + 1)
        ELSE IF o.attempt < config.retryAttempts - 1
        THEN [c EXCEPT !.orch.pc = "sleeping"]
        ELSE orchReturn(c, IF s.settled = "resolved" THEN s.result ELSE FailedAllServers)

\* validateSMTP resumes after the await of performSMTPCheck
orchResume(c) ==
    LET s == c.sess
        o == c.orch
    IN  IF s.settled = "resolved" /\ s.result.passed
        THEN orchReturn(c, s.result)
        ELSE IF o.idx < Len(o.records)
        THEN startProbe(c, o.attempt, o.idx + 1)
        ELSE IF o.attempt < config.retryAttempts - 1
        THEN [c EXCEPT !.orch.pc = "sleeping"]
        ELSE orchReturn(c, FailedAllServers)

\* validateSMTP up to its first await
validateSMTP(c, email, mxRecords) ==
    LET d == [c EXCEPT !.orch = [NoOrch EXCEPT !.email = email, !.records = mxRecords]]
    IN  IF config.retryAttempts >= 1 /\ Len(mxRecords) >= 1
        THEN startProbe(d, 0, 1)
        ELSE orchReturn(d, FailedAllServers)

\* the promise continuations that follow an event of the probe session
afterSession(c) ==
    IF c.orch.pc = "probing" /\ c.sess.settled # "pending" THEN orchResume(c) ELSE c

----------------------------------------------------------------------------
(* validateEmail: the pipeline                                             *)

InitialChecks ==
    [syntax |-> [passed |-> FALSE, message |-> <<>>],
     domain |-> [passed |-> FALSE, message |-> <<>>],
     mx |-> [passed |-> FALSE, message |-> <<>>, records |-> <<>>],
     smtp |-> [passed |-> FALSE, message |-> <<>>, response |-> <<>>],
     disposable |-> [passed |-> TRUE, message |-> <<>>],
     roleBased |-> [passed |-> TRUE, message |-> <<>>]]

\* the state of a validateEmail call before its try block
NewCall(input) ==
    [email |-> input, pc |-> "start",
     result |-> [email |-> input, isValid |-> FALSE, checks |-> InitialChecks,
                 executionTime |-> 0, timestamp |-> "now"],
     localPart |-> <<>>, domain |-> <<>>,
     timers |-> {}, dns |-> {}, started |-> {},
     orch |-> NoOrch, sess |-> NoSession, log |-> <<>>, orphans |-> 0]

\* validateEmail without the catch block: the exception propagates
validateEmailNoCatch(input) ==
    LET c == NewCall(input)
        syntaxResult == validateSyntax(input)
        parsed == parseEmail(input)
    IN  IF ~input.printable
        THEN [c EXCEPT !.pc = "threw"]
        ELSE IF ~syntaxResult.passed
        THEN [c EXCEPT !.pc = "returned", !.result.checks.syntax = syntaxResult]
        ELSE [c EXCEPT !.pc = "awaitDomain",
                       !.result.checks.syntax = syntaxResult,
                       !.localPart = parsed.localPart,
                       !.domain = parsed.domain,
                       !.dns = {"lookup"},
                       !.started = {"lookup"},
                       !.timers = {"domain"}]

\* validateEmail starting the MX query together with the domain lookup
validateEmailEager(input) ==
    LET c == NewCall(input)
        syntaxResult == validateSyntax(input)
        parsed == parseEmail(input)
    IN  IF ~input.printable
        THEN [c EXCEPT !.pc = "returned",
                       !.result.checks.syntax.message =
                           <<"Validation error: ", "Cannot convert a Symbol value to a string">>]
        ELSE IF ~syntaxResult.passed
        THEN [c EXCEPT !.pc = "returned", !.result.checks.syntax = syntaxResult]
        ELSE [c EXCEPT !.pc = "awaitDomain",
                       !.result.checks.syntax = syntaxResult,
                       !.localPart = parsed.localPart,
                       !.domain = parsed.domain,
                       !.dns = {"lookup", "resolveMx"},
                       !.started = {"lookup", "resolveMx"},
                       !.timers = {"domain"}]

\* validateEmail whose catch block returns the report without the error
validateEmailCatchSilent(input) ==
    LET c == NewCall(input)
        syntaxResult == validateSyntax(input)
        parsed == parseEmail(input)
    IN  IF ~input.printable
        THEN [c EXCEPT !.pc = "returned"]
        ELSE IF ~syntaxResult.passed
        THEN [c EXCEPT !.pc = "returned", !.result.checks.syntax = syntaxResult]
        ELSE [c EXCEPT !.pc = "awaitDomain",
                       !.result.checks.syntax = syntaxResult,
                       !.localPart = parsed.localPart,
                       !.domain = parsed.domain,
                       !.dns = {"lookup"},
                       !.started = {"lookup"},
                       !.timers = {"domain"}]

\* lines 50-68 and 114-119: the template literal of the first log call throws
\* for a value that cannot be converted to a string, and the catch block
\* returns the report; otherwise the syntax check runs and, if it passes,
\* the domain lookup is started and raced against its timer
validateEmail(input) ==
    LET c == NewCall(input)
        syntaxResult == validateSyntax(input)
        parsed == parseEmail(input)
    IN  IF ~input.printable
        THEN [c EXCEPT !.pc = "returned",
                       !.result.checks.syntax.message =
                           <<"Validation error: ", "Cannot convert a Symbol value to a string">>]
        ELSE IF ~syntaxResult.passed
        THEN [c EXCEPT !.pc = "returned", !.result.checks.syntax = syntaxResult]
        ELSE [c EXCEPT !.pc = "awaitDomain",
                       !.result.checks.syntax = syntaxResult,
                       !.localPart = parsed.localPart,
                       !.domain = parsed.domain,
                       !.dns = {"lookup"},
                       !.started = {"lookup"},
                       !.timers = {"domain"}]

\* domainDone without the early return of a failed domain check
domainDoneNoStop(c, domainResult) ==
    [c EXCEPT !.pc = "awaitMX",
              !.result.checks.domain = domainResult,
              !.dns = @ \cup {"resolveMx"},
              !.started = @ \cup {"resolveMx"},
              !.timers = @ \cup {"mx"}]

\* lines 69-80: the domain result is recorded; if it passed the MX query is
\* started and raced against its timer
domainDone(c, domainResult) ==
    IF ~domainResult.passed
    THEN [c EXCEPT !.pc = "returned", !.result.checks.domain = domainResult]
    ELSE [c EXCEPT !.pc = "awaitMX",
                   !.result.checks.domain = domainResult,
                   !.dns = @ \cup {"resolveMx"},
                   !.started = @ \cup {"resolveMx"},
                   !.timers = @ \cup {"mx"}]

\* mxDone running the heuristics before the early return
mxDoneWithHeuristics(c, mxResult) ==
    IF ~mxResult.passed
    THEN [c EXCEPT !.pc = "returned", !.result.checks.mx = mxResult,
                   !.result.checks.disposable = checkDisposable(c.domain),
                   !.result.checks.roleBased = checkRoleBased(c.localPart)]
    ELSE LET d == [c EXCEPT !.pc = "awaitSMTP",
                            !.result.checks.mx = mxResult,
                            !.started = @ \cup {"smtp"},
                            !.timers = @ \cup {"smtp"}]
         IN  validateSMTP(d, c.email.chars, mxResult.records)

\* lines 81-92: the MX result is recorded; if it passed validateSMTP is
\* started and raced against its timer
mxDone(c, mxResult) ==
    IF ~mxResult.passed
    THEN [c EXCEPT !.pc = "returned", !.result.checks.mx = mxResult]
    ELSE LET d == [c EXCEPT !.pc = "awaitSMTP",
                            !.result.checks.mx = mxResult,
                            !.started = @ \cup {"smtp"},
                            !.timers = @ \cup {"smtp"}]
         IN  validateSMTP(d, c.email.chars, mxResult.records)

StageOf(pc) ==
    CASE pc = "awaitDomain" -> "domain"
      [] pc = "awaitMX" -> "mx"
      [] pc = "awaitSMTP" -> "smtp"
      [] OTHER -> "none"

TimeoutMessage(stage) ==
    CASE stage = "domain" -> "Domain lookup timeout"
      [] stage = "mx" -> "MX record lookup timeout"
      [] stage = "smtp" -> "SMTP validation timeout"

\* validateEmail resumes after the await of withTimeout for the given stage
stageDone(c, stage, r) ==
    CASE stage = "domain" -> domainDone(c, r)
      [] stage = "mx" -> mxDone(c, r)
      [] stage = "smtp" -> smtpDone(c, r)

\* withTimeout whose timer does not settle the race
withTimeoutTimerLost(c, stage) == [c EXCEPT !.timers = @ \ {stage}]

\* withTimeout rethrowing the rejection of its timer, which the catch block
\* of validateEmail then reports
withTimeoutTimerRethrow(c, stage) ==
    LET d == [c EXCEPT !.timers = @ \ {stage}]
    IN  IF StageOf(c.pc) = stage
        THEN [d EXCEPT !.pc = "returned",
                       !.result.checks.syntax.message =
                           <<"Validation error: ", TimeoutMessage(stage)>>]
        ELSE d

\* the timer of withTimeout fires: it is never cleared, so it fires also
\* after the race has been decided, and then rejects a promise nobody awaits
withTimeoutTimer(c, stage) ==
    LET d == [c EXCEPT !.timers = @ \ {stage}]
    IN  IF StageOf(c.pc) = stage
        THEN stageDone(d, stage, TimeoutResult(TimeoutMessage(stage)))
        ELSE d

----------------------------------------------------------------------------
(* The environment: inputs, resolver answers and server replies            *)

EmailTestMailinator == Str(<<"t","e","s","t","@","m","a","i","l","i","n","a","t","o","r",".","c","o","m">>)
EmailUpperDisposable == Str(<<"U","@","G","R","R",".","L","A">>)
EmailRole == Str(<<"h","r","@","x",".","i","o">>)
EmailPadded == Str(<<" ","u","@","x",".","i","o"," ">>)
EmailNoAt == Str(<<"n","o","t","-","a","n","-","e","m","a","i","l">>)
EmailTwoAt == Str(<<"a","@","@","b">>)
EmailLeadingDot == Str(<<".","a","@","x",".","i","o">>)

\* inputs of validateEmail
Inputs ==
    {NonString, Unprintable, Str(<<>>), EmailNoAt, EmailTwoAt, EmailLeadingDot,
     EmailTestMailinator, EmailUpperDisposable, EmailRole, EmailPadded}

\* error codes of the resolver
DnsErrors == {"ENOTFOUND"}
LookupOutcomes == {"ok"} \cup DnsErrors

MxHosts == {"mx1", "mx2", "mx3"}
MxPriorities == {10, 20}
MxPool == [exchange : MxHosts, priority : MxPriorities]

\* the answers of dns.resolveMx: an error, or up to MaxMx records for
\* different hosts, in any order
MxAnswers ==
    {[error |-> e, records |-> <<>>] : e \in DnsErrors}
    \cup UNION {{[error |-> "", records |-> r] :
                    r \in {q \in [1..n -> MxPool] :
                             \A i, j \in 1..n : i # j => q[i].exchange # q[j].exchange}}
                : n \in 0..MaxMx}

Line(code) == code \o CRLF
L220 == Line(<<"2","2","0">>)
L250 == Line(<<"2","5","0">>)
L550 == Line(<<"5","5","0">>)
L551 == Line(<<"5","5","1">>)
L553 == Line(<<"5","5","3">>)
L450 == Line(<<"4","5","0">>)
L451 == Line(<<"4","5","1">>)
L452 == Line(<<"4","5","2">>)
L421 == Line(<<"4","2","1">>)
L554 == Line(<<"5","5","4">>)
LText == Line(<<"h","i">>)

\* what a server sends in one data event, in a validation
PipelineData == {L220, L250, L550, L450}
\* what a server sends in one data event, in a probe session run alone
ProbeData == {L220, L250, L550, L551, L553, L450, L451, L452, L421, L554, LText, CRLF}

\* errors of a socket
SocketErrors == {"ECONNREFUSED", "ECONNRESET"}

----------------------------------------------------------------------------
(* Actions: one per macrotask                                              *)

Configs ==
    {[timeout |-> 2500, retryAttempts |-> n, fromEmail |-> "test@example.com",
      verbose |-> FALSE,
      disposableDomains |-> disposableDomains,
      roleBasedPrefixes |-> roleBasedPrefixes] : n \in 1..MaxRetry}

\* no validateBatch call has been made
NoBatch == [pc |-> "none", emails |-> <<>>, results |-> <<>>]

\* new EmailValidator(options)
Init ==
    /\ config \in Configs
    /\ calls = <<>>
    /\ batch = NoBatch

\* validateBatch abandoning the loop at a report that carries an exception
batchLoopAbort(cs, b) ==
    IF b.pc = "running" /\ cs # <<>> /\ cs[Len(cs)].pc = "returned"
    THEN <<cs, [b EXCEPT !.pc = "done",
                         !.results = IF cs[Len(cs)].email.printable
                                     THEN Append(@, cs[Len(cs)].result) ELSE @]>>
    ELSE <<cs, b>>

\* the loop of validateBatch, resumed while the validateEmail call it awaits
\* (the last one made) has returned: the report is pushed and validateEmail
\* is called for the next address, or the list of reports is returned
RECURSIVE batchLoop(_, _)
batchLoop(cs, b) ==
    IF b.pc = "running" /\ cs # <<>> /\ cs[Len(cs)].pc = "returned"
    THEN LET results == Append(b.results, cs[Len(cs)].result)
         IN  IF Len(results) < Len(b.emails)
             THEN batchLoop(Append(cs, validateEmail(b.emails[Len(results) + 1])),
                            [b EXCEPT !.results = results])
             ELSE <<cs, [b EXCEPT !.results = results, !.pc = "done"]>>
    ELSE <<cs, b>>

\* the state of call i becomes c, and the continuations of its caller run
Update(i, c) ==
    LET next == batchLoop([calls EXCEPT ![i] = c], batch)
    IN  /\ calls' = next[1]
        /\ batch' = next[2]

\* validator.validateEmail(input) is called
Validate(input) ==
    /\ calls = <<>>
    /\ batch.pc = "none"
    /\ calls' = <<validateEmail(input)>>
    /\ UNCHANGED <<config, batch>>

\* validateBatch switching this.verbose for the time of the batch
ValidateBatchVerbose(emails) ==
    /\ calls = <<>>
    /\ batch.pc = "none"
    /\ LET b == [pc |-> "running", emails |-> emails, results |-> <<>>]
           next == IF emails = <<>> THEN <<(<<>>), [b EXCEPT !.pc = "done"]>>
                   ELSE batchLoop(<<validateEmail(emails[1])>>, b)
       IN  /\ calls' = next[1]
           /\ batch' = next[2]
    /\ config' = [config EXCEPT !.verbose = ~@]

\* validator.validateBatch(emails) is called
ValidateBatch(emails) ==
    /\ calls = <<>>
    /\ batch.pc = "none"
    /\ LET b == [pc |-> "running", emails |-> emails, results |-> <<>>]
           next == IF emails = <<>> THEN <<(<<>>), [b EXCEPT !.pc = "done"]>>
                   ELSE batchLoop(<<validateEmail(emails[1])>>, b)
       IN  /\ calls' = next[1]
           /\ batch' = next[2]
    /\ UNCHANGED config

\* dns.lookup settles
LookupDone(i, outcome) ==
    LET c == calls[i]
        d == [c EXCEPT !.dns = @ \ {"lookup"}]
    IN  /\ "lookup" \in c.dns
        /\ Update(i, IF c.pc = "awaitDomain" THEN domainDone(d, validateDomain(outcome)) ELSE d)
        /\ UNCHANGED config

\* dns.resolveMx settles
ResolveMxDone(i, outcome) ==
    LET c == calls[i]
        d == [c EXCEPT !.dns = @ \ {"resolveMx"}]
    IN  /\ "resolveMx" \in c.dns
        /\ Update(i, IF c.pc = "awaitMX" THEN mxDone(d, validateMX(outcome)) ELSE d)
        /\ UNCHANGED config

\* Timers fire in the order of their expiry, and timers of equal delay in the
\* order of their creation. Within a call: the domain timer before the MX
\* timer (2000 ms each); both before every timer of this.timeout ms created in
\* the SMTP stage, if this.timeout is not shorter; the watchdog of the first
\* probe, created in the same turn just before the race timer of the SMTP
\* stage, before that timer; the timers of later probes after it. Across the
\* calls of a batch, each of which starts after the one before it has
\* returned: a timer of an earlier call before a timer of the same delay of a
\* later call. Nothing orders the timers of two calls that run concurrently.
EarlierTimers(i) ==
    IF batch.pc = "none" THEN {}
    ELSE UNION {calls[k].timers : k \in 1..(i - 1)}

StageTimerDue(i, stage) ==
    LET c == calls[i]
    IN  /\ stage \in c.timers
        /\ stage = "mx" => "domain" \notin c.timers
        /\ stage \in {"domain", "mx"} => EarlierTimers(i) \cap {"domain", "mx"} = {}
        /\ stage = "smtp" =>
              /\ config.timeout >= 2000 => c.timers = {"smtp"}
              /\ ~(Len(c.log) = 1 /\ c.sess.watchdog = "pending")
              /\ "smtp" \notin EarlierTimers(i)

SessionTimerDue(i) ==
    LET c == calls[i]
    IN  /\ config.timeout >= 2000 =>
              (c.timers \cup EarlierTimers(i)) \cap {"domain", "mx"} = {}
        /\ Len(c.log) >= 2 => "smtp" \notin c.timers
        /\ "smtp" \notin EarlierTimers(i)

\* the timer of a withTimeout call fires
StageTimer(i, stage) ==
    /\ StageTimerDue(i, stage)
    /\ Update(i, withTimeoutTimer(calls[i], stage))
    /\ UNCHANGED config

\* the pause between two rounds of validateSMTP ends
SleepDone(i) ==
    /\ calls[i].orch.pc = "sleeping"
    /\ Update(i, startProbe(calls[i], calls[i].orch.attempt + 1, 1))
    /\ UNCHANGED config

\* SessionEvent with the step counter of the handshake kept on the validator
\* instead of in the closure of the probe: every probe in flight sees it
SessionEventSharedStep(i, s) ==
    /\ calls' = [k \in DOMAIN calls |->
                   IF k = i THEN afterSession([calls[i] EXCEPT !.sess = s])
                   ELSE IF calls[k].sess.settled = "pending" /\ calls[k].sess.host # ""
                   THEN [calls[k] EXCEPT !.sess.step = s.step]
                   ELSE calls[k]]
    /\ batch' = batch

\* an event of the probe session, followed by the continuations it triggers
SessionEvent(i, s) == Update(i, afterSession([calls[i] EXCEPT !.sess = s]))

\* the connection is established
SocketConnect(i) ==
    /\ calls[i].sess.socket = "connecting"
    /\ SessionEvent(i, onConnect(calls[i].sess))
    /\ UNCHANGED config

\* the server sends data
SocketData(i, data) ==
    /\ calls[i].sess.socket = "open"
    /\ SessionEvent(i, onData(calls[i].sess, data))
    /\ UNCHANGED config

\* the connection fails, or is reset
SocketError(i, code) ==
    /\ calls[i].sess.socket \in {"connecting", "open"}
    /\ SessionEvent(i, onError(calls[i].sess, code))
    /\ UNCHANGED config

\* the server closes the connection: the runtime destroys the socket
SocketEnd(i) ==
    /\ calls[i].sess.socket = "open"
    /\ SessionEvent(i, destroy(calls[i].sess))
    /\ UNCHANGED config

\* the 'close' event of a destroyed socket
SocketClose(i) ==
    /\ calls[i].sess.closePending
    /\ SessionEvent(i, onClose(calls[i].sess))
    /\ UNCHANGED config

\* the idle timeout of the socket
SocketTimeout(i) ==
    /\ calls[i].sess.socket \in {"connecting", "open"}
    /\ SessionTimerDue(i)
    /\ SessionEvent(i, onTimeout(calls[i].sess))
    /\ UNCHANGED config

\* the watchdog of the session
Watchdog(i) ==
    /\ calls[i].sess.watchdog = "pending"
    /\ SessionTimerDue(i)
    /\ SessionEvent(i, onWatchdog(calls[i].sess))
    /\ UNCHANGED config

SessionNext(i, datas) ==
    \/ SocketConnect(i)
    \/ \E data \in datas : SocketData(i, data)
    \/ \E code \in SocketErrors : SocketError(i, code)
    \/ SocketEnd(i)
    \/ SocketClose(i)
    \/ SocketTimeout(i)
    \/ Watchdog(i)

Next ==
    \/ \E input \in Inputs : Validate(input)
    \/ \E i \in DOMAIN calls :
        \/ \E outcome \in LookupOutcomes : LookupDone(i, outcome)
        \/ \E outcome \in MxAnswers : ResolveMxDone(i, outcome)
        \/ \E stage \in {"domain", "mx", "smtp"} : StageTimer(i, stage)
        \/ SleepDone(i)
        \/ SessionNext(i, PipelineData)

Spec == Init /\ [][Next]_vars

\* a smaller environment for the properties of progress: one input that
\* fails the syntax check and one that passes it, MX records of one priority,
\* and servers that accept or reject
FairInputs == {EmailNoAt, EmailTestMailinator}
FairMxAnswers == {a \in MxAnswers : \A k \in 1..Len(a.records) : a.records[k].priority = 10}
FairData == {L220, L250, L550}

FairNext ==
    \/ \E input \in FairInputs : Validate(input)
    \/ \E i \in DOMAIN calls :
        \/ \E outcome \in LookupOutcomes : LookupDone(i, outcome)
        \/ \E outcome \in FairMxAnswers : ResolveMxDone(i, outcome)
        \/ \E stage \in {"domain", "mx", "smtp"} : StageTimer(i, stage)
        \/ SleepDone(i)
        \/ SessionNext(i, FairData)

\* the same validation when timers fire: a pending timer of withTimeout is
\* fired by the event loop; nothing is assumed of the resolver and the servers
FairSpec ==
    /\ Init
    /\ [][FairNext]_vars
    /\ \A stage \in {"domain", "mx", "smtp"} :
          WF_vars(\E i \in DOMAIN calls : StageTimer(i, stage))
    /\ WF_vars(\E i \in DOMAIN calls : Watchdog(i))

\* emails and hosts of a probe session run alone
ProbeEmails == {EmailTestMailinator.chars, EmailPadded.chars}

\* performSMTPCheck(email, mxServer) is called on its own
InitProbe ==
    /\ config \in Configs
    /\ \E email \in ProbeEmails, mxServer \in MxHosts :
          calls = <<[NewCall(Str(email)) EXCEPT !.pc = "probe",
                                                !.sess = NewSession(email, mxServer)]>>
    /\ batch = NoBatch

NextProbe == \E i \in DOMAIN calls : SessionNext(i, ProbeData)

SpecProbe == InitProbe /\ [][NextProbe]_vars

\* a probe session run alone when the event loop delivers the events that
\* are due: a pending watchdog fires, an armed idle timeout fires, and the
\* 'close' event of a destroyed socket is emitted; nothing is assumed of the
\* server
FairSpecProbe ==
    /\ InitProbe
    /\ [][NextProbe]_vars
    /\ WF_vars(\E i \in DOMAIN calls : Watchdog(i))
    /\ WF_vars(\E i \in DOMAIN calls : SocketClose(i))

\* largest number of addresses given to validateBatch
MaxBatch == 2

\* the environment of a batch: an input that raises an exception, one that
\* fails the syntax check and one that passes it, a domain with two MX hosts,
\* and servers that accept or reject
BatchInputs == {Unprintable, EmailNoAt, EmailTestMailinator}
BatchMxRecords ==
    <<[exchange |-> "mx1", priority |-> 10], [exchange |-> "mx2", priority |-> 20]>>
BatchMxAnswers ==
    {a \in MxAnswers :
        /\ Len(a.records) <= Len(BatchMxRecords)
        /\ \A k \in 1..Len(a.records) : a.records[k] = BatchMxRecords[k]}
BatchData == {L220, L250}

NextBatch ==
    \/ \E n \in 0..MaxBatch : \E emails \in [1..n -> BatchInputs] : ValidateBatch(emails)
    \/ \E i \in DOMAIN calls :
        \/ \E outcome \in LookupOutcomes : LookupDone(i, outcome)
        \/ \E outcome \in BatchMxAnswers : ResolveMxDone(i, outcome)
        \/ \E stage \in {"domain", "mx", "smtp"} : StageTimer(i, stage)
        \/ SessionNext(i, BatchData)

\* new EmailValidator({retryAttempts: 1})
InitBatch ==
    /\ config \in {c \in Configs : c.retryAttempts = 1}
    /\ calls = <<>>
    /\ batch = NoBatch

SpecBatch == InitBatch /\ [][NextBatch]_vars

\* largest length of the generated inputs of the syntax check
MaxLen == 6

\* a letter, the two punctuation marks the rules speak of, the separator and
\* a white space, which is also a character that no part may contain
SyntaxAlphabet == {"a", ".", "-", "@", " "}

Rep(ch, n) == [i \in 1..n |-> ch]

\* inputs at the length limits of lines 151, 154 and 157: a local part of 64
\* and of 65 characters, a label of 63 and of 64, a domain of 253 and of 254
LongStrings ==
    LET d(n) == Rep("a", 63) \o <<".">> \o Rep("a", 63) \o <<".">> \o Rep("a", 63)
                \o <<".">> \o Rep("a", n)
    IN  {Rep("a", 64) \o <<"@", "a">>, Rep("a", 65) \o <<"@", "a">>,
         <<"a", "@">> \o Rep("a", 63), <<"a", "@">> \o Rep("a", 64),
         <<"a", "@">> \o d(61), <<"a", "@">> \o d(62)}

\* validateEmail on every input of the syntax check (a value that is not a
\* string, every string over SyntaxAlphabet up to MaxLen characters, the long
\* strings), the stages that follow running against the environment of a batch
NextSyntax ==
    \/ /\ calls = <<>>
       /\ \/ \E input \in {NonString, Unprintable} : Validate(input)
          \/ \E n \in 0..MaxLen : \E s \in [1..n -> SyntaxAlphabet] : Validate(Str(s))
          \/ \E s \in LongStrings : Validate(Str(s))
    \/ \E i \in DOMAIN calls :
        \/ \E outcome \in LookupOutcomes : LookupDone(i, outcome)
        \/ \E outcome \in BatchMxAnswers : ResolveMxDone(i, outcome)
        \/ \E stage \in {"domain", "mx", "smtp"} : StageTimer(i, stage)
        \/ SessionNext(i, BatchData)

SpecSyntax == InitBatch /\ [][NextSyntax]_vars

\* largest number of validateEmail calls made on one validator without
\* awaiting the ones before
MaxCalls == 2

\* validateEmail(input) is called while earlier calls may still be running
ValidateConcurrently(input) ==
    /\ Len(calls) < MaxCalls
    /\ batch.pc = "none"
    /\ calls' = Append(calls, validateEmail(input))
    /\ UNCHANGED <<config, batch>>

ConcurrentInputs == {EmailNoAt, EmailTestMailinator}

NextConcurrent ==
    \/ \E input \in ConcurrentInputs : ValidateConcurrently(input)
    \/ \E i \in DOMAIN calls :
        \/ \E outcome \in LookupOutcomes : LookupDone(i, outcome)
        \/ \E outcome \in BatchMxAnswers : ResolveMxDone(i, outcome)
        \/ \E stage \in {"domain", "mx", "smtp"} : StageTimer(i, stage)
        \/ SessionNext(i, BatchData)

SpecConcurrent == InitBatch /\ [][NextConcurrent]_vars

----------------------------------------------------------------------------
(* Properties                                                              *)

Returned(c) == c.pc = "returned"
\* a check of the report has been assigned the result of its stage
Recorded(check) == check.message # <<>>
CheckKinds == {"syntax", "domain", "mx", "smtp", "disposable", "roleBased"}

\* C1: in every returned report isValid is the conjunction of the passed
\* flags of syntax, domain, mx and smtp, whatever disposable and roleBased say
C1_IsValidIsConjunction ==
    \A i \in DOMAIN calls :
        Returned(calls[i]) =>
            LET r == calls[i].result
            IN  r.isValid = (r.checks.syntax.passed /\ r.checks.domain.passed
                             /\ r.checks.mx.passed /\ r.checks.smtp.passed)

\* a report for a listed disposable domain that is valid all the same
C1_Witness ==
    \E i \in DOMAIN calls :
        /\ Returned(calls[i])
        /\ calls[i].email = EmailTestMailinator
        /\ calls[i].result.isValid
        /\ ~calls[i].result.checks.disposable.passed

\* C2: validateEmail never throws, and a returned report has the fields
\* email, isValid, executionTime, timestamp and the six checks, each with a
\* boolean passed flag
C2_WellFormedReport ==
    \A i \in DOMAIN calls :
        /\ calls[i].pc \in {"awaitDomain", "awaitMX", "awaitSMTP", "returned"}
        /\ Returned(calls[i]) =>
            LET r == calls[i].result
            IN  /\ DOMAIN r = {"email", "isValid", "checks", "executionTime", "timestamp"}
                /\ r.email = calls[i].email
                /\ r.isValid \in BOOLEAN
                /\ DOMAIN r.checks = CheckKinds
                /\ \A k \in CheckKinds :
                      /\ "passed" \in DOMAIN r.checks[k]
                      /\ r.checks[k].passed \in BOOLEAN

\* a report returned for an input that cannot be converted to a string
C2_Witness ==
    \E i \in DOMAIN calls :
        /\ Returned(calls[i])
        /\ calls[i].email = Unprintable
        /\ Head(calls[i].result.checks.syntax.message) = "Validation error: "

StageResults(stage) ==
    CASE stage = "domain" -> {validateDomain(o) : o \in LookupOutcomes}
      [] stage = "mx" -> {validateMX(o) : o \in MxAnswers}
      [] stage = "smtp" -> {FailedAllServers}

\* the result of an accepting probe session
IsAccepted(r) ==
    /\ DOMAIN r = {"passed", "message", "response"}
    /\ r.passed
    /\ r.message = <<"Email address accepted by SMTP server">>

\* C3: every validateEmail call eventually returns when timers fire, and a
\* recorded stage result is the result of the stage's operation or the
\* timeout result of its race timer
C3_EventuallyReturns ==
    /\ (calls # <<>>) ~> (\A i \in DOMAIN calls : Returned(calls[i]))
    /\ [](\A i \in DOMAIN calls : \A stage \in {"domain", "mx", "smtp"} :
            LET check == calls[i].result.checks[stage]
            IN  Recorded(check) =>
                    \/ check = TimeoutResult(TimeoutMessage(stage))
                    \/ check \in StageResults(stage)
                    \/ stage = "smtp" /\ IsAccepted(check))

\* a report returned by the SMTP stage timer while the probe is unsettled
C3_Witness ==
    \E i \in DOMAIN calls :
        /\ Returned(calls[i])
        /\ calls[i].result.checks.smtp = TimeoutResult("SMTP validation timeout")
        /\ calls[i].sess.settled = "pending"
        /\ calls[i].orch.pc = "probing"

NothingStarted(c, ops) ==
    /\ c.started \cap ops = {}
    /\ c.dns \cap ops = {}
    /\ "smtp" \in ops => c.log = <<>> /\ c.sess = NoSession /\ c.orch = NoOrch

\* C4: a failed syntax check starts no lookup, no MX query and no probe; a
\* failed domain check starts no MX query and no probe; a failed MX check
\* starts no probe; a failed SMTP check is followed by the heuristics
C4_ShortCircuit ==
    \A i \in DOMAIN calls :
        LET c == calls[i]
            ch == c.result.checks
        IN  /\ ~ch.syntax.passed => Returned(c) /\ NothingStarted(c, {"lookup", "resolveMx", "smtp"})
            /\ (Recorded(ch.domain) /\ ~ch.domain.passed) =>
                    Returned(c) /\ NothingStarted(c, {"resolveMx", "smtp"})
            /\ (Recorded(ch.mx) /\ ~ch.mx.passed) =>
                    Returned(c) /\ NothingStarted(c, {"smtp"})
            /\ (Recorded(ch.smtp) /\ ~ch.smtp.passed) =>
                    /\ Returned(c)
                    /\ ch.disposable = checkDisposable(c.domain)
                    /\ ch.roleBased = checkRoleBased(c.localPart)

\* a report whose domain check failed by timeout
C4_Witness ==
    \E i \in DOMAIN calls :
        /\ Returned(calls[i])
        /\ calls[i].result.checks.domain = TimeoutResult("Domain lookup timeout")

\* C5: the operation of a stage is started only when the result of the
\* preceding stage is in the report
C5_StageOrder ==
    \A i \in DOMAIN calls :
        LET c == calls[i]
            ch == c.result.checks
        IN  /\ "lookup" \in c.started => Recorded(ch.syntax) /\ ch.syntax.passed
            /\ "resolveMx" \in c.started => Recorded(ch.domain) /\ ch.domain.passed
            /\ ("smtp" \in c.started \/ c.log # <<>> \/ c.sess # NoSession) =>
                    Recorded(ch.mx) /\ ch.mx.passed
            /\ (Recorded(ch.disposable) \/ Recorded(ch.roleBased)) => Recorded(ch.smtp)

\* a report of a validation that went through every stage, two probes included
C5_Witness ==
    \E i \in DOMAIN calls :
        /\ Returned(calls[i])
        /\ calls[i].started = {"lookup", "resolveMx", "smtp"}
        /\ Len(calls[i].log) = 2
        /\ Recorded(calls[i].result.checks.roleBased)

\* the transcript of the replies 220, 250, 250, 250, one per data event
Transcript4 ==
    <<"2","2","0","\n", "2","5","0","\n", "2","5","0","\n", "2","5","0","\n">>

\* C6: a session whose server replied 220, 250, 250, 250 has resolved with
\* passed = true and the acceptance message
C6_HappyPath ==
    \A i \in DOMAIN calls :
        LET s == calls[i].sess
        IN  s.response = Transcript4 =>
                /\ s.settled = "resolved"
                /\ s.result.passed
                /\ s.result.message = <<"Email address accepted by SMTP server">>

C6_Witness ==
    \E i \in DOMAIN calls :
        /\ calls[i].sess.response = Transcript4
        /\ calls[i].sess.settled = "resolved"
        /\ calls[i].sess.result.passed

\* the replies received by a session, in order
Replies(s) ==
    LET pieces == split(s.response, "\n")
    IN  SubSeq(pieces, 1, Len(pieces) - 1)

CodeOf(reply) == parseInt(substr0(reply, 3))

\* C7: the result of a session that resolved after RCPT TO is decided by the
\* code of the last reply
C7_RcptClassification ==
    \A i \in DOMAIN calls :
        LET s == calls[i].sess
            code == CodeOf(Replies(s)[Len(Replies(s))])
            m == s.result.message
        IN  (s.step = 3 /\ s.settled = "resolved") =>
                /\ code = 250 => s.result.passed
                /\ code \in {550, 551, 553} =>
                        ~s.result.passed /\ Head(m) = "Email address rejected: "
                /\ code \in {450, 451, 452} =>
                        ~s.result.passed
                        /\ Head(m) = "Temporary failure (possible greylisting): "
                /\ code \notin {250, 550, 551, 553, 450, 451, 452} =>
                        ~s.result.passed /\ Head(m) = "Unexpected response: "

\* a session that resolved on a reply to RCPT TO without a numeric code
C7_Witness ==
    \E i \in DOMAIN calls :
        LET s == calls[i].sess
        IN  /\ s.step = 3
            /\ s.settled = "resolved"
            /\ CodeOf(Replies(s)[Len(Replies(s))]) = NaN
            /\ Head(s.result.message) = "Unexpected response: "

CommandOrder == <<"HELO ", "MAIL FROM:<", "RCPT TO:<">>
ExpectedCode == <<220, 250, 250>>
RejectText == <<"Connection rejected: ", "HELO rejected: ", "MAIL FROM rejected: ">>

\* C8: the commands are sent in the order HELO, MAIL FROM, RCPT TO, each once
\* and after the expected reply to the step before; another code at one of
\* these steps resolves the session as rejected with the message of the step
\* and nothing more is sent
C8_HandshakeOrder ==
    \A i \in DOMAIN calls :
        LET s == calls[i].sess
            replies == Replies(s)
        IN  /\ Len(s.sent) <= 3
            /\ \A k \in 1..Len(s.sent) :
                  /\ Head(s.sent[k]) = CommandOrder[k]
                  /\ Len(replies) >= k
                  /\ CodeOf(replies[k]) = ExpectedCode[k]
            /\ \A k \in 1..Len(s.dropped) : Head(s.dropped[k]) = "QUIT"
            /\ \A k \in 1..3 :
                  (Len(replies) >= k /\ Len(s.sent) = k - 1
                      /\ CodeOf(replies[k]) # ExpectedCode[k]) =>
                        /\ s.settled = "resolved"
                        /\ ~s.result.passed
                        /\ Head(s.result.message) = RejectText[k]
                        /\ s.socket = "destroyed"
                        /\ Len(replies) = k
                        /\ s.dropped = <<>>

\* a session rejected at the HELO step
C8_Witness ==
    \E i \in DOMAIN calls :
        LET s == calls[i].sess
        IN  /\ s.settled = "resolved"
            /\ Head(s.result.message) = "HELO rejected: "
            /\ Len(s.sent) = 1

\* C9: a session that classified the RCPT reply has written QUIT to the open
\* socket and closed the socket afterwards
C9_QuitSent ==
    \A i \in DOMAIN calls :
        LET s == calls[i].sess
        IN  (s.step = 3 /\ s.settled = "resolved") =>
                /\ \E k \in 1..Len(s.sent) : Head(s.sent[k]) = "QUIT"
                /\ s.socket = "destroyed"

\* C10: when the watchdog or the idle timeout fires in a session whose server
\* accepted the connection and sent nothing, the session ends with a timeout
\* failure and its socket is destroyed
C10_SilentServer ==
    [][\A i \in DOMAIN calls :
          LET s == calls[i].sess
          IN  (/\ s.connected
               /\ s.socket = "open"
               /\ s.response = <<>>
               /\ s.settled = "pending"
               /\ (Watchdog(i) \/ SocketTimeout(i))) =>
                    /\ calls'[i].sess.settled = "rejected"
                    /\ calls'[i].sess.error \in {<<"SMTP connection timeout">>,
                                                 <<"SMTP socket timeout">>}
                    /\ calls'[i].sess.result = NoResult
                    /\ calls'[i].sess.socket = "destroyed"]_vars

\* a session of a silent server ended by the watchdog
C10_Witness ==
    \E i \in DOMAIN calls :
        LET s == calls[i].sess
        IN  /\ s.connected
            /\ s.response = <<>>
            /\ s.settled = "rejected"
            /\ s.error = <<"SMTP connection timeout">>
            /\ s.socket = "destroyed"

\* C11: every probe session eventually settles, also when the server stays
\* silent or closes the connection before the reply to RCPT TO
C11_EventuallySettles ==
    <>(\A i \in DOMAIN calls : calls[i].sess.settled # "pending")

\* the k-th probe of a validateSMTP call in round-robin order over its list
ProbeAt(o, k) ==
    [host |-> o.records[((k - 1) % Len(o.records)) + 1].exchange,
     attempt |-> (k - 1) \div Len(o.records)]

LastOfLastRound(o) ==
    o.idx = Len(o.records) /\ o.attempt = config.retryAttempts - 1

\* C12: validateSMTP probes the hosts in the order of its list and returns
\* the result of the first probe that passed, after which it contacts no host
\* and starts no round; a probe that did not pass never ends the search
\* before the last host of the last round
C12_FirstPassingHost ==
    [][\A i \in DOMAIN calls :
         LET c == calls[i]
             d == calls'[i]
         IN  /\ \A k \in 1..Len(d.log) : d.log[k] = ProbeAt(d.orch, k)
             /\ c.orch.pc = "done" => d.orch = c.orch /\ d.log = c.log
             /\ c.orch.pc # "done" /\ d.orch.pc = "done" /\ d.orch.out.passed
                  => /\ d.sess.settled = "resolved"
                     /\ d.orch.out = d.sess.result
                     /\ d.sess.host = d.orch.records[d.orch.idx].exchange
                     /\ d.log = c.log
             /\ c.orch.pc = "probing" /\ d.orch.pc = "done" /\ ~d.orch.out.passed
                  => LastOfLastRound(c.orch)
             /\ c.orch.pc = "probing" /\ c.sess.settled = "pending"
                /\ d.sess.settled = "resolved" /\ ~d.sess.result.passed
                  => d.orch.pc \in {"sleeping", "done"}
                     /\ c.orch.idx = Len(c.orch.records)]_vars

\* the second host accepted the address after the first one did not
C12_Witness ==
    \E i \in DOMAIN calls :
        /\ calls[i].orch.pc = "done"
        /\ calls[i].orch.out.passed
        /\ Len(calls[i].orch.records) = 2
        /\ calls[i].log = <<ProbeAt(calls[i].orch, 1), ProbeAt(calls[i].orch, 2)>>
        /\ calls[i].result.checks.smtp.passed

\* C13: the probes of one validateSMTP call are strictly sequential: a probe
\* starts only after the preceding one has settled and released its socket
\* and watchdog, so at most one probe session of the call is in flight, and
\* only while validateSMTP awaits it
C13_Sequential ==
    \A i \in DOMAIN calls :
        /\ calls[i].orphans = 0
        /\ InFlight(calls[i].sess) => calls[i].orch.pc = "probing"
        /\ calls[i].orch.pc \in {"sleeping", "done"} /\ calls[i].log # <<>>
             => calls[i].sess.settled # "pending"

\* the second probe of a call is in flight
C13_Witness ==
    \E i \in DOMAIN calls :
        /\ Len(calls[i].log) = 2
        /\ calls[i].sess.socket = "open"
        /\ calls[i].sess.watchdog = "pending"
        /\ calls[i].sess.host = calls[i].log[2].host

\* a step in which the probe session of call i is aborted by a socket error,
\* by its watchdog or by its idle timeout
SessionAborted(i) ==
    /\ calls[i].orch.pc = "probing"
    /\ calls[i].sess.settled = "pending"
    /\ \/ \E code \in SocketErrors : SocketError(i, code)
       \/ Watchdog(i)
       \/ SocketTimeout(i)

\* C14: a socket error, a watchdog timeout or an idle timeout aborts only its
\* session: validateSMTP swallows it and goes on to the next host or the next
\* round; the failure ends the search only at the last host of the last
\* round, and nothing is thrown out of validateSMTP
C14_ErrorSwallowed ==
    [][\A i \in DOMAIN calls :
         LET c == calls[i]
             d == calls'[i]
             o == c.orch
         IN  SessionAborted(i) =>
               /\ d.pc \in {c.pc, "returned"}
               /\ d.result.checks.syntax = c.result.checks.syntax
               /\ d.orphans = 0
               /\ IF o.idx < Len(o.records)
                  THEN /\ d.orch = [o EXCEPT !.idx = o.idx + 1]
                       /\ d.sess = NewSession(o.email, o.records[o.idx + 1].exchange)
                       /\ d.log = Append(c.log, [host |-> d.sess.host,
                                                 attempt |-> o.attempt])
                       /\ d.pc = c.pc /\ d.result = c.result
                  ELSE /\ d.sess.settled = "rejected"
                       /\ d.sess.socket = "destroyed"
                       /\ d.sess.watchdog # "pending"
                       /\ d.log = c.log
                       /\ IF o.attempt < config.retryAttempts - 1
                          THEN /\ d.orch = [o EXCEPT !.pc = "sleeping"]
                               /\ d.pc = c.pc /\ d.result = c.result
                          ELSE /\ d.orch = [o EXCEPT !.pc = "done",
                                                     !.out = FailedAllServers]
                               /\ c.pc = "awaitSMTP" =>
                                    /\ d.pc = "returned"
                                    /\ d.result.checks.smtp = FailedAllServers]_vars

\* the last host of the first round failed with a socket error and the
\* search goes on with the pause before the second round
C14_Witness ==
    \E i \in DOMAIN calls :
        /\ calls[i].pc = "awaitSMTP"
        /\ calls[i].orch.pc = "sleeping"
        /\ calls[i].sess.settled = "rejected"
        /\ calls[i].sess.error \in {<<code>> : code \in SocketErrors}
        /\ calls[i].sess.socket = "destroyed"

\* C15: when no host accepts, validateSMTP probes every host once per round,
\* each round from the first host, for exactly retryAttempts rounds and never
\* more; it pauses between two rounds and not after the last one, and then
\* returns the failure 'SMTP validation failed for all MX servers after
\* retries' with an empty transcript
C15_ExhaustsRounds ==
    [][\A i \in DOMAIN calls :
         LET c == calls[i]
             d == calls'[i]
             o == d.orch
             n == Len(o.records)
         IN  /\ Len(d.log) <= config.retryAttempts * n
             /\ o.pc = "probing" => Len(d.log) = o.attempt * n + o.idx
             /\ o.pc = "sleeping" => /\ Len(d.log) = (o.attempt + 1) * n
                                     /\ o.attempt < config.retryAttempts - 1
             /\ o.pc = "done" /\ ~o.out.passed
                  => /\ o.out = FailedAllServers
                     /\ Len(d.log) = config.retryAttempts * n
                     /\ \A k \in 1..Len(d.log) : d.log[k] = ProbeAt(o, k)
                     /\ c.orch.pc # "sleeping"
                     /\ c.pc = "awaitSMTP" => d.result.checks.smtp = FailedAllServers
             /\ o.attempt # c.orch.attempt
                  => /\ c.orch.pc \in {"none", "sleeping"}
                     /\ c.orch.pc = "sleeping" => /\ o.attempt = c.orch.attempt + 1
                                                  /\ o.idx = 1
                                                  /\ o.pc = "probing"]_vars

\* two rounds over two hosts have failed and the report carries the failure
C15_Witness ==
    \E i \in DOMAIN calls :
        /\ config.retryAttempts = 2
        /\ Len(calls[i].orch.records) = 2
        /\ Len(calls[i].log) = 4
        /\ calls[i].orch.pc = "done"
        /\ calls[i].pc = "returned"
        /\ calls[i].result.checks.smtp = FailedAllServers

StageTimeoutText ==
    [domain |-> "Domain lookup timeout",
     mx |-> "MX record lookup timeout",
     smtp |-> "SMTP validation timeout"]

\* C16: when the race timer of the domain, MX or SMTP stage fires before the
\* stage's operation has produced a result, nothing is thrown: the check of
\* that stage is recorded as failed with the stage's timeout message; for the
\* SMTP stage this holds whatever the state of the probe's watchdog, and the
\* heuristics run before the report is returned
C16_TimeoutDegrades ==
    [][\A i \in DOMAIN calls : \A stage \in DOMAIN StageTimeoutText :
         LET c == calls[i]
             d == calls'[i]
         IN  StageTimer(i, stage) /\ StageOf(c.pc) = stage =>
               /\ d.pc = "returned"
               /\ d.result.checks[stage].passed = FALSE
               /\ d.result.checks[stage].message = <<StageTimeoutText[stage]>>
               /\ d.result.checks.syntax = c.result.checks.syntax
               /\ d.result.isValid = FALSE
               /\ stage = "smtp" => /\ Recorded(d.result.checks.disposable)
                                    /\ Recorded(d.result.checks.roleBased)
                                    /\ d.result.checks.mx = c.result.checks.mx]_vars

\* the SMTP stage timed out while the watchdog of the probe was still pending
C16_Witness ==
    \E i \in DOMAIN calls :
        /\ calls[i].pc = "returned"
        /\ calls[i].result.checks.smtp.message = <<"SMTP validation timeout">>
        /\ calls[i].sess.watchdog = "pending"
        /\ Recorded(calls[i].result.checks.roleBased)

\* C17: at the moment validateEmail returns, the losers of its races have been
\* torn down: no timer it created is pending, no socket it opened is open, no
\* probe or lookup it started is still running
C17_LoserTornDown ==
    \A i \in DOMAIN calls :
        Returned(calls[i]) =>
            /\ calls[i].timers = {}
            /\ calls[i].dns = {}
            /\ ~InFlight(calls[i].sess)
            /\ calls[i].orch.pc \in {"none", "done"}

\* the messages of a rejection at a step of the handshake and of a transient
\* failure at RCPT TO
StepRejectionTexts ==
    {RejectText[k] : k \in DOMAIN RejectText}
    \cup {"Email address rejected: ", "Temporary failure (possible greylisting): "}

\* C18: when the search ended with the server rejecting at a step or
\* answering RCPT TO with a 4xx code, the smtp check of the report is failed
\* and its message is the one of that step, a transient failure being told
\* from a rejection by it
C18_RejectionReported ==
    \A i \in DOMAIN calls :
        LET c == calls[i]
        IN  /\ Returned(c)
            /\ c.orch.pc = "done"
            /\ c.sess.settled = "resolved"
            /\ ~c.sess.result.passed
            /\ Head(c.sess.result.message) \in StepRejectionTexts
            /\ c.result.checks.smtp.message # <<"SMTP validation timeout">>
            => /\ ~c.result.checks.smtp.passed
               /\ Head(c.result.checks.smtp.message) = Head(c.sess.result.message)

\* C19: validateBatch on a list of N addresses returns exactly N reports, the
\* k-th being the report of the k-th validateEmail call and carrying the k-th
\* address, whatever the outcomes; while it runs, the reports collected so
\* far are those of the first addresses, in order
C19_BatchOrder ==
    /\ batch.pc = "done" => Len(batch.results) = Len(batch.emails)
    /\ batch.pc = "running" => /\ Len(calls) = Len(batch.results) + 1
                               /\ Len(calls) <= Len(batch.emails)
                               /\ ~Returned(calls[Len(calls)])
    /\ \A k \in 1..Len(batch.results) :
          /\ batch.results[k].email = batch.emails[k]
          /\ Returned(calls[k])
          /\ batch.results[k] = calls[k].result

\* a batch of two is done: the first address raised an exception inside
\* validateEmail, the second one went through the SMTP stage
C19_Witness ==
    /\ batch.pc = "done"
    /\ Len(batch.results) = 2
    /\ batch.results[1].email = Unprintable
    /\ Head(batch.results[1].checks.syntax.message) = "Validation error: "
    /\ batch.results[2].email = EmailTestMailinator
    /\ Recorded(batch.results[2].checks.smtp)

\* C20: validateBatch runs one address at a time: whatever an address
\* started, its sockets and its search for an accepting host, has ended
\* before the next address begins, so two addresses of a batch never have a
\* socket in use at the same moment
C20_NoOverlap ==
    \A i, j \in DOMAIN calls :
        i < j => ~(/\ calls[i].sess.socket \in {"connecting", "open"}
                   /\ calls[j].sess.socket \in {"connecting", "open"})

\* C21: concurrent validateEmail calls share no mutable state: a step of the
\* event loop changes the report, the orchestrator, the probe session (socket,
\* watchdog, step counter, transcript) and the timers of at most one call,
\* and a call that has been started is never replaced by another one
C21_CallsIsolated ==
    [][/\ \A i \in DOMAIN calls : i \in DOMAIN calls' /\ calls'[i].email = calls[i].email
       /\ \A i, j \in DOMAIN calls :
            i # j /\ calls'[i] # calls[i] => calls'[j] = calls[j]]_vars

\* two calls are in flight, their probes at different steps of the handshake
C21_Witness ==
    /\ Len(calls) = 2
    /\ calls[1].pc = "awaitSMTP" /\ calls[2].pc = "awaitSMTP"
    /\ calls[1].sess.socket = "open" /\ calls[2].sess.socket = "open"
    /\ calls[1].sess.step = 0 /\ calls[2].sess.step = 2
    /\ calls[1].sess.response # calls[2].sess.response

\* C22: a report is immutable once returned: whatever the validation still
\* has in flight (a late reply, a late probe result, a late timer), no field
\* of the returned report changes
C22_ReportFrozen ==
    [][\A i \in DOMAIN calls :
         Returned(calls[i]) => /\ Returned(calls'[i])
                               /\ calls'[i].result = calls[i].result]_vars

\* the SMTP stage timed out, the report was returned, and afterwards the
\* probe that was still running was accepted by the server
C22_Witness ==
    \E i \in DOMAIN calls :
        /\ Returned(calls[i])
        /\ calls[i].result.checks.smtp.message = <<"SMTP validation timeout">>
        /\ calls[i].orch.pc = "done"
        /\ calls[i].orch.out.passed
        /\ ~calls[i].result.isValid

\* C23: the options and the two lists that the constructor stores on the
\* validator are left unchanged by every operation
C23_ConfigFrozen ==
    [][/\ config' = config
       /\ config'.disposableDomains = disposableDomains
       /\ config'.roleBasedPrefixes = roleBasedPrefixes]_vars

\* a batch has run through the SMTP stage and the heuristics of an address
C23_Witness ==
    /\ batch.pc = "done"
    /\ \E k \in 1..Len(batch.results) :
          /\ Recorded(batch.results[k].checks.smtp)
          /\ ~batch.results[k].checks.disposable.passed
    /\ config \in Configs

\* the syntax check has failed with this message and validateEmail has
\* returned without running another check
StoppedAtSyntax(c, text) ==
    /\ Returned(c)
    /\ c.result.checks.syntax = Failed(text)
    /\ c.result.checks = [InitialChecks EXCEPT !.syntax = Failed(text)]
    /\ ~c.result.isValid
    /\ c.started = {} /\ c.dns = {} /\ c.timers = {}
    /\ c.sess = NoSession /\ c.orch = NoOrch

\* C24 as stated: every string with zero or at least two '@' fails the syntax
\* check with 'Email must contain exactly one @ symbol' and no further check
\* runs
C24_AtCount ==
    \A i \in DOMAIN calls :
        calls[i].email.isString /\ CountChar(calls[i].email.chars, "@") # 1
            => StoppedAtSyntax(calls[i], "Email must contain exactly one @ symbol")

\* C24 amended: every non-empty string with zero or at least two '@' fails
\* the syntax check with 'Email must contain exactly one @ symbol' and no
\* further check runs
C24_AtCountNonEmpty ==
    \A i \in DOMAIN calls :
        /\ calls[i].email.isString
        /\ calls[i].email.chars # <<>>
        /\ CountChar(calls[i].email.chars, "@") # 1
        => StoppedAtSyntax(calls[i], "Email must contain exactly one @ symbol")

\* an address with two '@' was refused with that message
C24_Witness ==
    \E i \in DOMAIN calls :
        /\ CountChar(calls[i].email.chars, "@") = 2
        /\ Len(calls[i].email.chars) = 4
        /\ StoppedAtSyntax(calls[i], "Email must contain exactly one @ symbol")

\* the string s without its k-th character
RemoveAt(s, k) == SubSeq(s, 1, k - 1) \o SubSeq(s, k + 1, Len(s))

\* position of the first '@' of s, 0 when there is none
AtIndex(s) ==
    IF CountChar(s, "@") = 0 THEN 0
    ELSE CHOOSE k \in 1..Len(s) : s[k] = "@" /\ \A j \in 1..(k - 1) : s[j] # "@"

\* s is a passing address, free of blanks, into which one character that
\* breaks a rule was inserted at position k; the value is the message of that
\* rule, or <<>> when position k is no such insertion
ViolationMessage(s, k) ==
    LET at == AtIndex(s)
        p == RemoveAt(s, k)
    IN  IF \/ " " \in {s[j] : j \in 1..Len(s)}
           \/ at = 0
           \/ k = at
           \/ ~validateSyntax(Str(p)).passed
        THEN <<>>
        ELSE IF s[k] = "." /\ (k = 1 \/ k = at - 1)
        THEN <<"Local part cannot start or end with a period">>
        ELSE IF s[k] = "." /\ k < at /\ s[k + 1] = "."
        THEN <<"Local part cannot contain consecutive periods">>
        ELSE IF s[k] = "-" /\ (k = at + 1 \/ k = Len(s))
        THEN <<"Domain cannot start or end with a hyphen">>
        ELSE <<>>

\* C25: an address that passes validateSyntax, with exactly one rule
\* violation introduced (a leading or trailing '.' in the local part, '..' in
\* the local part, a domain starting or ending with '-'), fails with the
\* message of that rule
C25_ViolationMessage ==
    \A i \in DOMAIN calls :
        calls[i].email.isString =>
            \A k \in 1..Len(calls[i].email.chars) :
                LET m == ViolationMessage(calls[i].email.chars, k)
                IN  m # <<>> =>
                        /\ ~calls[i].result.checks.syntax.passed
                        /\ calls[i].result.checks.syntax.message = m

\* the labels of a domain: the pieces between its periods
RECURSIVE Labels(_)
Labels(d) ==
    IF CountChar(d, ".") = 0 THEN <<d>>
    ELSE LET k == CHOOSE j \in 1..Len(d) : d[j] = "." /\ \A h \in 1..(j - 1) : d[h] # "."
         IN  <<SubSeq(d, 1, k - 1)>> \o Labels(SubSeq(d, k + 1, Len(d)))

\* the six rules of the syntax check, read on the string itself
SixRules(s) ==
    /\ s # <<>>
    /\ CountChar(s, "@") = 1
    /\ LET at == AtIndex(s)
           localPart == SubSeq(s, 1, at - 1)
           domain == SubSeq(s, at + 1, Len(s))
       IN  /\ Len(localPart) \in 1..64
           /\ \A k \in 1..Len(localPart) : localPart[k] \in LocalChars
           /\ localPart[1] # "." /\ localPart[Len(localPart)] # "."
           /\ \A k \in 1..(Len(localPart) - 1) : ~(localPart[k] = "." /\ localPart[k + 1] = ".")
           /\ Len(domain) \in 1..253
           /\ \A n \in 1..Len(Labels(domain)) :
                LET l == Labels(domain)[n]
                IN  /\ Len(l) \in 1..63
                    /\ \A k \in 1..Len(l) : l[k] \in AlphaNum \cup {"-"}
                    /\ l[1] # "-" /\ l[Len(l)] # "-"

\* C26: validateSyntax returns passed=true for exactly the strings that
\* satisfy all six rules, and passed=false for every other input
C26_ExactlySixRules ==
    \A i \in DOMAIN calls :
        calls[i].result.checks.syntax.passed
            <=> (calls[i].email.isString /\ SixRules(calls[i].email.chars))

\* C28: whenever the syntax check of validateEmail passes, the localPart and
\* the domain handed to the later stages are the two sides of the single '@'
\* that the syntax check validated, of 1-64 and 1-253 characters
C28_AddressInvariant ==
    \A i \in DOMAIN calls :
        calls[i].result.checks.syntax.passed =>
            LET validated == trim(calls[i].email.chars)
                at == AtIndex(validated)
            IN  /\ calls[i].localPart = SubSeq(validated, 1, at - 1)
                /\ calls[i].domain = SubSeq(validated, at + 1, Len(validated))
                /\ Len(calls[i].localPart) \in 1..64
                /\ Len(calls[i].domain) \in 1..253

\* the sequences a and b hold the same records the same number of times
IsPermutation(a, b) ==
    /\ Len(a) = Len(b)
    /\ \A r \in {a[k] : k \in 1..Len(a)} \cup {b[k] : k \in 1..Len(b)} :
         Cardinality({k \in 1..Len(a) : a[k] = r}) = Cardinality({k \in 1..Len(b) : b[k] = r})

\* C29: when validateMX returns passed=true its records are non-empty, a
\* permutation of the resolver's answer and in non-decreasing priority order,
\* and the message reports their number; when the query errors or returns
\* no record the result is passed=false with an empty records list
C29_MxSorted ==
    [][\A i \in DOMAIN calls : \A outcome \in MxAnswers :
          ResolveMxDone(i, outcome) /\ calls[i].pc = "awaitMX" =>
              LET mx == calls'[i].result.checks.mx
              IN  /\ mx.passed =>
                      /\ mx.records # <<>>
                      /\ IsPermutation(mx.records, outcome.records)
                      /\ \A k \in 1..(Len(mx.records) - 1) :
                            mx.records[k].priority <= mx.records[k + 1].priority
                      /\ mx.message = <<"Found ", ToString(Len(outcome.records)), " MX record(s)">>
                  /\ outcome.error # "" \/ outcome.records = <<>> =>
                      ~mx.passed /\ mx.records = <<>> /\ mx.message # <<>>]_vars

\* an answer of two records of different priorities was accepted and sorted
C29_Witness ==
    \E i \in DOMAIN calls :
        LET mx == calls[i].result.checks.mx
        IN  /\ mx.passed
            /\ Len(mx.records) = 2
            /\ mx.records[1].priority < mx.records[2].priority
            /\ mx.message = <<"Found ", "2", " MX record(s)">>

----------------------------------------------------------------------------
(* Batches of two addresses that differ at most in letter case             *)

EmailLowerDisposable == Str(<<"u","@","g","r","r",".","l","a">>)
EmailUpperRole == Str(<<"H","R","@","x",".","i","o">>)
EmailRolePrefix == Str(<<"h","r","s","@","x",".","i","o">>)
EmailUpperRolePrefix == Str(<<"H","R","S","@","x",".","i","o">>)

\* batches of two spellings of one address: disposable domain, role local
\* part, and a local part that only starts with a role
CasePairs ==
    {<<EmailLowerDisposable, EmailUpperDisposable>>,
     <<EmailUpperRole, EmailRole>>,
     <<EmailRolePrefix, EmailUpperRolePrefix>>}

NextCase ==
    \/ \E emails \in CasePairs : ValidateBatch(emails)
    \/ \E i \in DOMAIN calls :
        \/ \E outcome \in LookupOutcomes : LookupDone(i, outcome)
        \/ \E outcome \in BatchMxAnswers : ResolveMxDone(i, outcome)
        \/ \E stage \in {"domain", "mx", "smtp"} : StageTimer(i, stage)
        \/ SessionNext(i, BatchData)

SpecCase == InitBatch /\ [][NextCase]_vars

\* the call has run the two heuristic checks
HeuristicsRun(c) ==
    /\ Returned(c)
    /\ Recorded(c.result.checks.disposable)
    /\ Recorded(c.result.checks.roleBased)

\* C30: checkDisposable gives passed=false exactly when the lower-cased
\* domain is in the disposable list, checkRoleBased gives passed=false
\* exactly when the lower-cased whole local part is in the role list, and two
\* addresses that differ only in letter case get identical disposable and
\* roleBased results
C30_CaseInsensitive ==
    /\ \A i \in DOMAIN calls :
          HeuristicsRun(calls[i]) =>
              /\ ~calls[i].result.checks.disposable.passed
                    <=> toLowerCase(calls[i].domain) \in disposableDomains
              /\ ~calls[i].result.checks.roleBased.passed
                    <=> toLowerCase(calls[i].localPart) \in roleBasedPrefixes
    /\ \A i, j \in DOMAIN calls :
          /\ HeuristicsRun(calls[i]) /\ HeuristicsRun(calls[j])
          /\ toLowerCase(calls[i].email.chars) = toLowerCase(calls[j].email.chars)
          => /\ calls[i].result.checks.disposable = calls[j].result.checks.disposable
             /\ calls[i].result.checks.roleBased = calls[j].result.checks.roleBased

\* two spellings of one disposable address were both flagged
C30_Witness ==
    \E i, j \in DOMAIN calls :
        /\ calls[i].email # calls[j].email
        /\ toLowerCase(calls[i].email.chars) = toLowerCase(calls[j].email.chars)
        /\ HeuristicsRun(calls[i]) /\ HeuristicsRun(calls[j])
        /\ ~calls[i].result.checks.disposable.passed
        /\ ~calls[j].result.checks.disposable.passed

\* C31: the disposable and role-based heuristics run exactly when the MX
\* check has passed: once the SMTP stage has ended, whether SMTP passed,
\* failed or timed out, and not when the syntax, domain or MX check failed
C31_HeuristicsAfterMx ==
    \A i \in DOMAIN calls :
        LET c == calls[i]
            ch == c.result.checks
        IN  /\ ~Returned(c) =>
                ~Recorded(ch.disposable) /\ ~Recorded(ch.roleBased)
            /\ Returned(c) /\ ch.mx.passed =>
                /\ Recorded(ch.smtp)
                /\ Recorded(ch.disposable) /\ Recorded(ch.roleBased)
            /\ Returned(c) /\ ~(ch.syntax.passed /\ ch.domain.passed /\ ch.mx.passed) =>
                /\ ~Recorded(ch.disposable) /\ ~Recorded(ch.roleBased)
                /\ ch.disposable = InitialChecks.disposable
                /\ ch.roleBased = InitialChecks.roleBased

\* the heuristics ran for a mailbox that a server had rejected
C31_Witness ==
    \E i \in DOMAIN calls :
        /\ HeuristicsRun(calls[i])
        /\ calls[i].result.checks.mx.passed
        /\ calls[i].result.checks.smtp = FailedAllServers
        /\ ~calls[i].result.checks.disposable.passed

\* C32: an exception raised in the pipeline that is not a stage timeout is
\* caught by validateEmail, which returns a failed report instead of
\* propagating it: isValid is false, the message of the syntax check carries
\* the error message, and no check that decides validity is reported as passed
C32_ExceptionReported ==
    \A i \in DOMAIN calls :
        /\ calls[i].pc # "threw"
        /\ ~calls[i].email.printable =>
              LET r == calls[i].result
              IN  /\ Returned(calls[i])
                  /\ ~r.isValid
                  /\ r.checks.syntax.message =
                        <<"Validation error: ", "Cannot convert a Symbol value to a string">>
                  /\ \A k \in {"syntax", "domain", "mx", "smtp"} : ~r.checks[k].passed
                  /\ calls[i].started = {}

\* the catch block has produced a report
C32_Witness ==
    \E i \in DOMAIN calls :
        /\ ~calls[i].email.printable
        /\ Returned(calls[i])
        /\ ~calls[i].result.isValid
        /\ Len(calls[i].result.checks.syntax.message) = 2

\* the messages of a session: the payload of each data event, trimmed
Messages(s) == [k \in 1..Len(s.received) |-> trim(s.received[k])]

\* the strings of msgs with a newline between each two of them
RECURSIVE JoinLines(_)
JoinLines(msgs) ==
    IF msgs = <<>> THEN <<>>
    ELSE IF Len(msgs) = 1 THEN msgs[1]
    ELSE msgs[1] \o <<"\n">> \o JoinLines(Tail(msgs))

\* C33 as stated: whenever performSMTPCheck resolves, the response of its
\* result is the newline-joined sequence of every server message received
\* in the session, in arrival order, up to and including the deciding one
C33_TranscriptComplete ==
    \A i \in DOMAIN calls :
        calls[i].sess.settled = "resolved" =>
            calls[i].sess.result.response = JoinLines(Messages(calls[i].sess))

\* C33 amended: whenever performSMTPCheck resolves, the response of its
\* result is the newline-joined sequence of every server message received
\* in the session, in arrival order, up to and including the deciding one,
\* with the whitespace at the two ends of the whole transcript removed
C33_TranscriptTrimmed ==
    \A i \in DOMAIN calls :
        calls[i].sess.settled = "resolved" =>
            calls[i].sess.result.response = trim(JoinLines(Messages(calls[i].sess)))

\* a session resolved by its fourth message, with all four in the transcript
C33_Witness ==
    \E i \in DOMAIN calls :
        LET s == calls[i].sess
        IN  /\ s.settled = "resolved"
            /\ Len(s.received) = 4
            /\ CountChar(s.result.response, "\n") = 3
            /\ s.result.response # <<>>

----------------------------------------------------------------------------
(* A probe session whose server's bytes arrive in data events of any size  *)

\* payloads of a data event: one reply line, the first or the second part of
\* a line cut in two, and two lines together
GroupedData ==
    {L220, L250, L550,
     <<"2", "2">>, <<"0">> \o CRLF, <<"2", "5">>,
     L220 \o L250, L250 \o L250}

NextGrouping ==
    \E i \in DOMAIN calls :
        \/ SocketConnect(i)
        \/ \E data \in GroupedData : SocketData(i, data)
        \/ SocketClose(i)

SpecGrouping == InitProbe /\ [][NextGrouping]_vars

\* all the bytes of a sequence of payloads
RECURSIVE Concat(_)
Concat(payloads) ==
    IF payloads = <<>> THEN <<>> ELSE Head(payloads) \o Concat(Tail(payloads))

\* the complete lines of a byte stream, each with the CRLF that ends it
RECURSIVE LinesOf(_)
LinesOf(bytes) ==
    LET ends == {k \in 1..(Len(bytes) - 1) : bytes[k] = "\r" /\ bytes[k + 1] = "\n"}
    IN  IF ends = {} THEN <<>>
        ELSE LET k == CHOOSE e \in ends : \A f \in ends : e <= f
             IN  <<SubSeq(bytes, 1, k + 1)>> \o LinesOf(SubSeq(bytes, k + 2, Len(bytes)))

\* the session after the given lines have arrived one per data event
RECURSIVE OneLinePerEvent(_, _)
OneLinePerEvent(s, lines) ==
    IF lines = <<>> \/ s.socket # "open" THEN s
    ELSE OneLinePerEvent(onData(s, Head(lines)), Tail(lines))

\* C34: the probe classifies each line of the server by the code at its
\* start, one transition per reply, however the bytes are grouped into data
\* events: the commands sent and the final result are those of the same
\* lines arriving one per data event
C34_GroupingIndependent ==
    \A i \in DOMAIN calls :
        LET s == calls[i].sess
            ref == OneLinePerEvent(onConnect(NewSession(s.email, s.host)),
                                   LinesOf(Concat(s.received)))
        IN  s.connected =>
                /\ s.sent = ref.sent
                /\ s.settled = ref.settled
                /\ s.result.passed = ref.result.passed
                /\ s.result.message = ref.result.message

----------------------------------------------------------------------------
(* A validation against servers that may answer in more than one line      *)

\* the first line of a reply of several lines: a hyphen follows the code
L250More == <<"2", "5", "0", "-", "x">> \o CRLF

\* what a server sends in one data event: a reply of one line, or one line
\* of a reply of several lines
MultilineData == {L220, L250, L250More, L550}

NextMultiline ==
    \/ Validate(EmailTestMailinator)
    \/ \E i \in DOMAIN calls :
        \/ \E outcome \in LookupOutcomes : LookupDone(i, outcome)
        \/ \E outcome \in BatchMxAnswers : ResolveMxDone(i, outcome)
        \/ \E stage \in {"domain", "mx", "smtp"} : StageTimer(i, stage)
        \/ SessionNext(i, MultilineData)

SpecMultiline == InitBatch /\ [][NextMultiline]_vars

\* the codes of the replies in the lines of a server: a line whose code is
\* followed by a hyphen is continued by the next line, the reply ends with
\* the first line without one
RECURSIVE ServerReplyCodes(_)
ServerReplyCodes(lines) ==
    IF lines = <<>> THEN <<>>
    ELSE LET line == Head(lines)
         IN  IF Len(line) >= 4 /\ line[4] = "-"
             THEN ServerReplyCodes(Tail(lines))
             ELSE <<parseInt(substr0(line, 3))>> \o ServerReplyCodes(Tail(lines))

\* C35: checks.smtp.passed is true in a report only if one host of the
\* report's mx records answered 220 to the connect, 250 to HELO, 250 to
\* MAIL FROM and 250 to RCPT TO for exactly the validated address, and the
\* smtp transcript of the report is the transcript of that one session
C35_PassedIsWitnessed ==
    \A i \in DOMAIN calls :
        LET c == calls[i]
            r == c.result
            s == c.sess
        IN  Returned(c) /\ r.checks.smtp.passed =>
                /\ r.checks.mx.passed
                /\ \E k \in 1..Len(r.checks.mx.records) :
                      r.checks.mx.records[k].exchange = s.host
                /\ s.connected
                /\ s.sent = <<CmdHELO, CmdMAIL, CmdRCPT(r.email.chars)>>
                /\ ServerReplyCodes(LinesOf(Concat(s.received))) = <<220, 250, 250, 250>>
                /\ s.settled = "resolved"
                /\ r.checks.smtp.response = trim(JoinLines(Messages(s)))

\* C36: in every report whose smtp check was reached and failed, the message
\* of the check is 'SMTP validation failed for all MX servers after retries'
\* or 'SMTP validation timeout' and the transcript is empty or absent: no
\* message and no transcript of a rejecting host reaches a report
C36_FailureMessages ==
    \A i \in DOMAIN calls :
        LET c == calls[i]
            smtp == c.result.checks.smtp
        IN  Returned(c) /\ c.result.checks.mx.passed /\ ~smtp.passed =>
                /\ smtp.message \in
                      {<<"SMTP validation failed for all MX servers after retries">>,
                       <<"SMTP validation timeout">>}
                /\ "response" \in DOMAIN smtp => smtp.response = <<>>
                /\ smtp \in {FailedAllServers, TimeoutResult("SMTP validation timeout")}

\* a host has rejected the mailbox with its own message and transcript, and
\* the report carries the message for all servers and no transcript
C36_Witness ==
    \E i \in DOMAIN calls :
        LET c == calls[i]
        IN  /\ Returned(c)
            /\ c.result.checks.smtp = FailedAllServers
            /\ c.sess.settled = "resolved"
            /\ c.sess.step = 3
            /\ Head(c.sess.result.message) = "Email address rejected: "
            /\ c.sess.result.response # <<>>

\* the checks of a report, in the order of the pipeline
CheckOrder == <<"syntax", "domain", "mx", "smtp", "disposable", "roleBased">>

\* C37: a report that stops at the syntax, domain or MX stage keeps the
\* initial values of all later checks: an empty message, passed=false for
\* domain, mx and smtp, passed=true for disposable and roleBased, whatever
\* the domain and the local part of the address
C37_LaterChecksInitial ==
    \A i \in DOMAIN calls :
        \A k \in 1..3 :
            /\ Returned(calls[i])
            /\ ~calls[i].result.checks[CheckOrder[k]].passed
            /\ \A h \in 1..(k - 1) : calls[i].result.checks[CheckOrder[h]].passed
            => \A j \in (k + 1)..6 :
                  LET check == calls[i].result.checks[CheckOrder[j]]
                  IN  /\ check = InitialChecks[CheckOrder[j]]
                      /\ check.message = <<>>
                      /\ check.passed = (j >= 5)

\* a report for an address of a listed disposable domain that stopped at the
\* MX stage and does not flag the domain
C37_Witness ==
    \E i \in DOMAIN calls :
        /\ Returned(calls[i])
        /\ toLowerCase(calls[i].domain) \in disposableDomains
        /\ calls[i].result.checks.domain.passed
        /\ calls[i].result.checks.mx.message = <<"No MX records found for domain">>
        /\ calls[i].result.checks.disposable = [passed |-> TRUE, message |-> <<>>]

\* C38: once validateEmail has returned its report, the SMTP orchestrator of
\* that validation opens no new connection and starts no new retry round,
\* also when the report was produced by the deadline of the SMTP stage
C38_QuietAfterReturn ==
    [][\A i \in DOMAIN calls :
          Returned(calls[i]) =>
              /\ Len(calls'[i].log) = Len(calls[i].log)
              /\ calls'[i].orch.attempt = calls[i].orch.attempt
              /\ calls'[i].orch.pc = "sleeping" => calls[i].orch.pc = "sleeping"]_vars

\* the session has ended: its promise has settled, or its socket has closed
Ended(s) == s.settled # "pending" \/ (s.socket = "destroyed" /\ ~s.closePending)

\* C39: every terminal path of a probe session (a result resolved at any
\* step, a socket error, the idle timeout, close) clears the watchdog and
\* destroys the socket, and cleanup is idempotent: the watchdog never fires
\* after the session has settled, the promise settles at most once, with the
\* outcome of the first terminal event, and no handshake transition is taken
\* after the socket has been destroyed
C39_TerminalPaths ==
    /\ [](\A i \in DOMAIN calls :
            LET s == calls[i].sess
            IN  /\ Ended(s) => s.watchdog # "pending" /\ s.socket = "destroyed"
                /\ cleanup(cleanup(s)) = cleanup(s))
    /\ [][\A i \in DOMAIN calls :
            LET s == calls[i].sess
                t == calls'[i].sess
            IN  /\ Watchdog(i) => s.settled = "pending"
                /\ s.settled # "pending" =>
                      t.settled = s.settled /\ t.result = s.result /\ t.error = s.error
                /\ s.socket = "destroyed" =>
                      t.step = s.step /\ t.sent = s.sent /\ t.socket = "destroyed"]_vars

\* a session rejected by a socket error whose close event has run cleanup a
\* second time
C39_Witness ==
    \E i \in DOMAIN calls :
        LET s == calls[i].sess
        IN  /\ s.settled = "rejected"
            /\ s.error \in {<<code>> : code \in SocketErrors}
            /\ s.socket = "destroyed" /\ ~s.closePending
            /\ s.watchdog = "cleared"
            /\ s.step >= 1
====
